---- MODULE Spec2Model ----
(***************************************************************************)
(* EDDA voice client (pi-client): the speech detector and capture          *)
(* pipeline, the acoustic echo canceller's reference buffer, and the       *)
(* audio player with the server-message dispatcher.                        *)
(*                                                                         *)
(* Each subsystem has its own specification (SpecDetector, SpecAec,        *)
(* SpecPlayer); a specification leaves the other subsystems' variables at  *)
(* their constructed values.                                               *)
(***************************************************************************)
EXTENDS Integers, Sequences, FiniteSets, TLC

(***************************************************************************)
(* Bounds of the model.                                                    *)
(***************************************************************************)
\* frames captured in one session (between two detector resets)
MaxFrames == 9
\* largest configured pre_buffer_chunks explored
MaxPreRoll == 2
\* largest configured max_silence_chunks explored
MaxSilence == 3

\* ReferenceBuffer capacity in samples (AecConfig.buffer_samples)
RingCapacity == 3
\* the engine's frame size in samples (AecConfig.frame_size)
FrameSize == 2
\* speaker-to-mic delay in samples (AecConfig.delay_samples)
DelaySamples == 1
\* longest PCM buffer registered in one call, in samples
MaxRegister == 7
\* samples registered since the ring was last cleared
MaxWritten == 8
\* longest microphone buffer passed to cancel_echo, in samples
MaxMic == 3
\* largest reading of the monotonic clock, in sample periods
MaxClock == 3
\* sink processes spawned in one run
MaxProcs == 3
\* capacity of the stream queue (queue.Queue(maxsize=128) in the program)
QueueMaxsize == 1
\* sentences in one response
MaxSentences == 2
\* longest base64 text in a message's data field, in characters
MaxBase64 == 4
\* raw messages read from one websocket
MaxMessages == 2
\* chunks passed to write_stream for one stream
MaxChunks == 4
\* capacity of the stream queue where one stream is followed chunk by chunk
StreamQueueSize == 2
\* messages of one response that the two dispatchers are compared on
MaxResponseMessages == 4
\* playbacks begun by a player that has an echo canceller
MaxPlaybacks == 3
\* chunks written to one stream of that player
MaxRefChunks == 2
\* frames the input pipeline processes
MaxDuckFrames == 8
\* longest cache key, in characters
MaxKeyLen == 1
\* longest WAV payload stored, in bytes
MaxPayload == 2
\* largest configured size limit of the cache, in bytes
MaxLimit == 1
\* store calls in one run
MaxStores == 2
\* largest reading of the cache's clock
MaxCacheClock == 2
\* sessions (connection attempts) in one run of the client
MaxSessions == 2
\* frames captured in one session of the coordinator
MaxSessionFrames == 4

\* Optional[T]: None is the empty sequence, a value x is <<x>>
None == << >>
Some(x) == << x >>

Min(a, b) == IF a <= b THEN a ELSE b

(***************************************************************************)
(* Speech detector (edda/speech/detector.py) and the capture side of the   *)
(* pipeline (edda/speech/pipeline.py, client.py capture_and_send).         *)
(*                                                                         *)
(* A captured frame is identified by its capture sequence number, which    *)
(* is also the model's clock reading (datetime.now()) when the frame is    *)
(* processed.  The detector never inspects a frame's contents.             *)
(***************************************************************************)
VARIABLES
    pre_buffer_chunks,     \* SpeechConfig.pre_buffer_chunks (deque maxlen)
    max_silence_chunks,    \* SpeechConfig.max_silence_chunks
    pre_buffer,            \* SpeechDetector._pre_buffer
    is_speaking,           \* SpeechDetector._is_speaking
    silence_chunks,        \* SpeechDetector._silence_chunks
    chunks_sent,           \* SpeechDetector._chunks_sent
    speech_start_time,     \* SpeechDetector._speech_start_time
    last_speech_end_time,  \* SpeechDetector._last_speech_end_time
    wire,                  \* messages sent on the websocket, in order
    hist,                  \* history: is_speech of every frame processed
    log                    \* history: the SpeechResult of every frame

detVars == << pre_buffer_chunks, max_silence_chunks, pre_buffer, is_speaking,
              silence_chunks, chunks_sent, speech_start_time,
              last_speech_end_time, wire, hist, log >>

\* the echo canceller's state (edda/audio/aec.py)
VARIABLES
    aec_initialized,        \* EchoCanceller._initialized (and _aec is set)
    rb_samples,             \* ReferenceBuffer._samples, index 0..capacity-1
    write_pos,              \* ReferenceBuffer._write_pos
    total_written,          \* ReferenceBuffer._total_written
    playback_start_time,    \* ReferenceBuffer._playback_start_time
    playback_start_sample,  \* ReferenceBuffer._playback_start_sample
    pending_start_sample,   \* ReferenceBuffer._pending_start_sample
    clock,                  \* time.monotonic()
    ce_pc,                  \* cancel_echo: "idle" or "frames" (in its loop)
    ce_mic,                 \* cancel_echo: mic_samples
    ce_i,                   \* cancel_echo: loop offset i
    ce_out,                 \* cancel_echo: output_samples, concatenated
    ce_result,              \* the value the last cancel_echo call returned
    ce_calls,               \* history: engine calls made by the current/last call
    ce_gate,                \* history: what the current/last call saw on entry
    ce_frames,              \* history: the frames of the current/last call, as a set
    registered,             \* history: samples passed to write since the last clear
    timing                  \* history: "never", "started" or "ended"

aecVars == << aec_initialized, rb_samples, write_pos, total_written,
              playback_start_time, playback_start_sample, pending_start_sample,
              clock, ce_pc, ce_mic, ce_i, ce_out, ce_result, ce_calls,
              ce_gate, ce_frames, registered, timing >>

\* the player's and the dispatcher's state (edda/audio/playback.py,
\* edda/network/handler.py, edda/cache.py) and the capture loop's pause
VARIABLES
    procs,                      \* every sink process spawned so far, in spawn order
    stream_proc,                \* AudioPlayer._stream_proc (with _stream_thread, _stream_q)
    stream_kind,                \* AudioPlayer._stream_kind
    current_handle,             \* AudioPlayer._current_handle
    playback_event,             \* the playback_active event
    pending_response_complete,  \* MessageHandler._pending_response_complete
    tts_first_chunk,            \* MessageHandler._tts_first_chunk
    busy,                       \* the blocking play_wav the dispatcher awaits
    cache_keys,                 \* CacheManager: the keys has() answers True for
    announced,                  \* history: the sink of the stream announced last
    misrouted,                  \* history: a sink was written a chunk of another stream
    response                    \* history: the server response the messages belong to

playerVars == << procs, stream_proc, stream_kind, current_handle, playback_event,
                 pending_response_complete, tts_first_chunk, busy, cache_keys,
                 announced, misrouted, response >>

\* the session coordinator's state (client.py main, connect_and_stream and
\* the two session tasks)
VARIABLES
    main_pc,      \* where main / connect_and_stream stands
    cap_pc,       \* where the capture task stands, or the exception that ended it
    recv_pc,      \* where the receive task stands, or how it ended
    session_no,   \* sessions that have ended so far
    exit_status,  \* the process's exit status once it has terminated
    exit_cause,   \* history: what terminated the process
    last_end,     \* history: how the last session ended
    device_stream,  \* AudioDevice._stream: the session whose stream it is, or None
    open_streams    \* the sessions whose input stream is open

sessVars == << main_pc, cap_pc, recv_pc, session_no, exit_status, exit_cause, last_end,
               device_stream, open_streams >>

\* the receive loop's state (connection.py receive_messages, _parse_message)
VARIABLES
    rx_pc,       \* "idle" (awaiting the websocket) or "dispatch" (a message was yielded)
    rx_raw,      \* the raw message read last
    rx_msg,      \* what _parse_message returned for it
    rx_handled,  \* history: a handler has run for it
    rx_count     \* raw messages read so far

rxVars == << rx_pc, rx_raw, rx_msg, rx_handled, rx_count >>

\* one PCM stream of the player followed chunk by chunk
\* (playback.py start_stream._writer, write_stream, end_stream, stop_current)
VARIABLES
    sw_q,         \* the stream's queue: chunk numbers and the sentinel
    sw_passed,    \* chunks passed to write_stream for this stream so far
    sw_returned,  \* what write_stream returned for each of them
    sw_stdin,     \* the chunks written to the sink's stdin, in order
    sw_thread,    \* the writer thread: "running" or "done"
    sw_sink,      \* the sink process: "alive", "exited" or "killed"
    sw_active,    \* the player still holds the stream (_stream_q is this queue)
    sw_ended_at,  \* history: sw_passed when end_stream queued the sentinel
    sw_stopped,   \* history: the stream was stopped by stop_current
    sw_end_called,\* history: end_stream has been called for the stream
    sw_reference  \* the chunks registered with the echo canceller, in order

streamVars == << sw_q, sw_passed, sw_returned, sw_stdin, sw_thread, sw_sink,
                 sw_active, sw_ended_at, sw_stopped, sw_end_called, sw_reference >>

\* the audio cache (edda/cache.py) and the files it keeps
VARIABLES
    max_bytes,    \* CacheManager.max_size_mb in bytes, 0 for no limit
    files,        \* the file system: location |-> content of every WAV file written
    disk_meta,    \* metadata.json on disk
    metadata,     \* CacheManager.metadata
    cache_pc,     \* "ready", or "down" while the process is not running
    cache_clock,  \* datetime.now(), counted in cache operations
    stores,       \* store calls made so far
    fresh,        \* history: the last store that returned True
    last_path     \* history: the key and the file location of the last access

cacheVars == << max_bytes, files, disk_meta, metadata, cache_pc, cache_clock,
                stores, fresh, last_path >>

\* the dispatch of the cache messages (client.py receive_messages)
VARIABLES
    store_msg     \* history: the AudioCacheStore handled last, and whether its key was cached

dispatchVars == << store_msg >>

\* the volume ducking of the input pipeline (edda/speech/pipeline.py) and the
\* player's volume state (edda/audio/playback.py)
VARIABLES
    consecutive_triggers,  \* InputPipeline._consecutive_triggers
    consecutive_silence,   \* InputPipeline._consecutive_silence
    volume_ducked,         \* AudioPlayer._volume_ducked
    normal_volume,         \* AudioPlayer._normal_volume
    duck_hist              \* history: every processed frame, with the mixer command it issued

duckVars == << consecutive_triggers, consecutive_silence, volume_ducked, normal_volume,
               duck_hist >>

\* the configuration main builds the detector from (client.py main)
VARIABLES
    audio_config,  \* AudioConfig: capture_rate, target_rate, chunk_size
    vad_cfg        \* the vad section: pre_buffer_ms, silence_duration_ms

cfgVars == << audio_config, vad_cfg >>

\* the player with an echo canceller (edda/audio/playback.py with
\* edda/audio/aec.py): whose samples the reference ring holds and whose
\* start the playback timing belongs to
VARIABLES
    pbs,             \* every playback begun so far: its sink and its thread
    rp_stream,       \* AudioPlayer._stream_proc (with _stream_thread, _stream_q)
    rp_first_chunk,  \* AudioPlayer._stream_first_chunk
    rp_handle,       \* AudioPlayer._current_handle
    wav_pc,          \* where the blocking play_wav stands in its worker thread
    ring_of,         \* the playbacks whose samples the reference ring holds
    time_of,         \* the playback that set playback_start_time, None when it is None
    latch            \* history of the stream started last: clears, timing starts, drops

refVars == << pbs, rp_stream, rp_first_chunk, rp_handle, wav_pc, ring_of, time_of, latch >>

\* the time-to-first-audio marker under the two dispatchers
\* (MessageHandler in edda/network/handler.py, receive_messages in client.py),
\* each with a detector of its own that sees the same utterances
VARIABLES
    mh_marker,  \* MessageHandler: detector.last_speech_end_time is set
    mh_first,   \* MessageHandler._tts_first_chunk
    cl_marker,  \* receive_messages: detector.last_speech_end_time is set
    cl_first,   \* receive_messages: tts_first_pcm_chunk
    tt_resp,    \* history: the current response's messages and clears so far
    tt_last     \* history: the message handled last and who cleared the marker on it

ttfaVars == << mh_marker, mh_first, cl_marker, cl_first, tt_resp, tt_last >>

\* the state of the parts that follow the cache
lateVars == << dispatchVars, duckVars, cfgVars, refVars, ttfaVars >>

\* the state of the parts added after the player
restVars == << sessVars, rxVars, streamVars, cacheVars, lateVars >>

\* what the steps of one part of the client leave alone
notDetVars == << aecVars, playerVars, restVars >>
notAecVars == << detVars, playerVars, restVars >>
notPlayerVars == << detVars, aecVars, restVars >>

\* SpeechEvent
SILENCE == "SILENCE"
STARTED == "STARTED"
CONTINUING == "CONTINUING"
ENDED == "ENDED"

\* wire messages: an audio_chunk carries a frame, end_speech carries none
AudioChunkMsg(frame) == [type |-> "audio_chunk", data |-> frame]
EndSpeechMsg == [type |-> "end_speech"]

\* deque(maxlen=n).append: drops the oldest element when full
DequeAppend(dq, x, maxlen) ==
    IF Len(dq) >= maxlen
    THEN SubSeq(dq, Len(dq) - maxlen + 2, Len(dq)) \o << x >>
    ELSE Append(dq, x)

\* detector.py:166 -- the silence streak that ends the utterance
EndReachedLate(n) == n > max_silence_chunks
EndReached(n) == n >= max_silence_chunks

\* detector.py:156 -- a speech frame while speaking restarts the streak
SilenceAfterSpeechKept(n) == n
SilenceAfterSpeech(n) == 0

\* detector.py:210 -- chunks flushed by STARTED
StartedChunksNoPreRoll(buf, audio_chunk) == << audio_chunk >>
StartedChunks(buf, audio_chunk) == buf \o << audio_chunk >>

\* SpeechResult
Result(ev, chunks, ended_at, dur, sent) ==
    [event |-> ev, chunks_to_send |-> chunks, speech_ended_at |-> ended_at,
     duration |-> dur, chunks_sent |-> sent]

\* pipeline.py:219-227 -- what the pipeline sends for a result
Send(res) ==
    IF res.event \in {STARTED, CONTINUING}
    THEN [i \in 1..Len(res.chunks_to_send) |-> AudioChunkMsg(res.chunks_to_send[i])]
    ELSE IF res.event = ENDED THEN << EndSpeechMsg >> ELSE << >>

\* the frame now being captured and the clock reading while it is processed
NextFrame == Len(hist) + 1

\* a count read after the reset of _chunks_sent (detector.py:180)
ChunksCountAfterReset(n) == 0

\* detector.py:173 -- chunks_count, read before the state is reset
ChunksCount(n) == n

\* SpeechDetector._process_speaking followed by the pipeline's send
ProcessSpeaking(audio_chunk, is_speech) ==
    /\ is_speaking
    /\ IF is_speech
       THEN /\ silence_chunks' = SilenceAfterSpeech(silence_chunks)
            /\ chunks_sent' = chunks_sent + 1
            /\ log' = Append(log, [was_speaking |-> TRUE, pre_len |-> Len(pre_buffer), wire_at |-> Len(wire),
                                   res |-> Result(CONTINUING, << audio_chunk >>, None, None, None)])
            /\ UNCHANGED << is_speaking, speech_start_time, last_speech_end_time >>
       ELSE IF EndReached(silence_chunks + 1)
       THEN /\ is_speaking' = FALSE
            /\ silence_chunks' = 0
            /\ speech_start_time' = None
            /\ chunks_sent' = 0
            /\ last_speech_end_time' = Some(NextFrame)
            /\ log' = Append(log, [was_speaking |-> TRUE, pre_len |-> Len(pre_buffer), wire_at |-> Len(wire),
                                   res |-> Result(ENDED, << >>, Some(NextFrame),
                                                  IF speech_start_time # None
                                                  THEN Some(NextFrame - speech_start_time[1])
                                                  ELSE None,
                                                  Some(ChunksCount(chunks_sent)))])
       ELSE /\ silence_chunks' = silence_chunks + 1
            /\ chunks_sent' = chunks_sent + 1
            /\ log' = Append(log, [was_speaking |-> TRUE, pre_len |-> Len(pre_buffer), wire_at |-> Len(wire),
                                   res |-> Result(CONTINUING, << audio_chunk >>, None, None, None)])
            /\ UNCHANGED << is_speaking, speech_start_time, last_speech_end_time >>
    /\ hist' = Append(hist, is_speech)
    /\ wire' = wire \o Send(log'[Len(log')].res)
    /\ UNCHANGED << pre_buffer, pre_buffer_chunks, max_silence_chunks >>

\* SpeechDetector._process_silent followed by the pipeline's send
ProcessSilent(audio_chunk, is_speech) ==
    /\ ~is_speaking
    /\ IF is_speech
       THEN /\ is_speaking' = TRUE
            /\ silence_chunks' = 0
            /\ speech_start_time' = Some(NextFrame)
            /\ chunks_sent' = Len(StartedChunks(pre_buffer, audio_chunk))
            /\ log' = Append(log, [was_speaking |-> FALSE, pre_len |-> Len(pre_buffer), wire_at |-> Len(wire),
                                   res |-> Result(STARTED, StartedChunks(pre_buffer, audio_chunk),
                                                  None, None, None)])
            /\ UNCHANGED pre_buffer
       ELSE /\ pre_buffer' = DequeAppend(pre_buffer, audio_chunk, pre_buffer_chunks)
            /\ log' = Append(log, [was_speaking |-> FALSE, pre_len |-> Len(pre_buffer), wire_at |-> Len(wire),
                                   res |-> Result(SILENCE, << >>, None, None, None)])
            /\ UNCHANGED << is_speaking, silence_chunks, speech_start_time, chunks_sent >>
    /\ hist' = Append(hist, is_speech)
    /\ wire' = wire \o Send(log'[Len(log')].res)
    /\ UNCHANGED << last_speech_end_time, pre_buffer_chunks, max_silence_chunks >>

\* InputPipeline._process_chunk / capture_and_send: one captured frame goes
\* through the VAD (is_speech), SpeechDetector.process and the send
ProcessChunk ==
    /\ Len(hist) < MaxFrames
    /\ \E is_speech \in BOOLEAN :
          \/ ProcessSpeaking(NextFrame, is_speech)
          \/ ProcessSilent(NextFrame, is_speech)
    /\ UNCHANGED notDetVars

\* SpeechDetector.clear_speech_end_time (called by the dispatcher's TTFA log)
ClearSpeechEndTime ==
    /\ last_speech_end_time # None
    /\ last_speech_end_time' = None
    /\ UNCHANGED << pre_buffer_chunks, max_silence_chunks, pre_buffer, is_speaking,
                    silence_chunks, chunks_sent, speech_start_time, wire, hist, log >>
    /\ UNCHANGED notDetVars

\* detector.py:227 -- reset leaves no utterance in progress
ResetIsSpeakingKept(speaking) == speaking
ResetIsSpeaking(speaking) == FALSE

\* SpeechDetector.reset; the next session has a new websocket and its
\* history starts over
Reset ==
    /\ pre_buffer' = << >>
    /\ is_speaking' = ResetIsSpeaking(is_speaking)
    /\ silence_chunks' = 0
    /\ chunks_sent' = 0
    /\ speech_start_time' = None
    /\ last_speech_end_time' = None
    /\ wire' = << >>
    /\ hist' = << >>
    /\ log' = << >>
    /\ UNCHANGED << pre_buffer_chunks, max_silence_chunks >>

\* SpeechDetector.reset between two sessions of the capture path
DetectorReset ==
    /\ Len(hist) > 0
    /\ Reset
    /\ UNCHANGED notDetVars

\* SpeechDetector.__init__ for every configuration explored
InitDetector ==
    /\ pre_buffer_chunks \in 1..MaxPreRoll
    /\ max_silence_chunks \in 1..MaxSilence
    /\ pre_buffer = << >>
    /\ is_speaking = FALSE
    /\ silence_chunks = 0
    /\ chunks_sent = 0
    /\ speech_start_time = None
    /\ last_speech_end_time = None
    /\ wire = << >>
    /\ hist = << >>
    /\ log = << >>

NextDetector ==
    \/ ProcessChunk
    \/ ClearSpeechEndTime
    \/ DetectorReset

(***************************************************************************)
(* Properties of the detector and the capture pipeline.                    *)
(***************************************************************************)
Ev(i) == log[i].res.event
Chunks(i) == log[i].res.chunks_to_send
Frames == 1..Len(log)
\* the consecutive frames f, f+1, ..., f+n-1
FrameRun(f, n) == [j \in 1..n |-> f + j - 1]
\* the wire messages sent while frame i was processed
WireOf(i) ==
    SubSeq(wire, log[i].wire_at + 1,
           IF i < Len(log) THEN log[i + 1].wire_at ELSE Len(wire))
\* frames observed in the IDLE stretch that immediately precedes frame i
IdleRun(i) ==
    LET spoken == {j \in 1..(i - 1) : log[j].was_speaking}
        last == IF spoken = {} THEN 0 ELSE CHOOSE j \in spoken : \A k \in spoken : k <= j
    IN  i - 1 - last
\* consecutive non-speech frames up to and including frame i
TrailingSilence(i) ==
    LET speech == {j \in 1..i : hist[j]}
        last == IF speech = {} THEN 0 ELSE CHOOSE j \in speech : \A k \in speech : k <= j
    IN  i - last

\* C1 (as claimed): whenever the detector is IDLE, has observed n non-speech
\* frames and then receives a speech frame, STARTED carries exactly the last
\* min(n, pre_roll_chunks) IDLE frames in order, then the triggering frame,
\* and the pipeline sends them on the wire in that order.
C1_PreRollFlushOrdering ==
    \A i \in Frames :
        Ev(i) = STARTED =>
            LET m == Min(IdleRun(i), pre_buffer_chunks)
            IN  /\ Chunks(i) = FrameRun(i - m, m + 1)
                /\ WireOf(i) = [j \in 1..(m + 1) |-> AudioChunkMsg(i - m + j - 1)]

\* C2: while SPEAKING, ENDED is emitted exactly on the max_silence_chunks-th
\* consecutive non-speech frame after the last speech frame, never earlier;
\* last_speech_ended_at is recorded on that frame; a speech frame in
\* between restarts the silence count.
C2_EndOfUtterance ==
    /\ \A i \in Frames :
          log[i].was_speaking =>
             /\ (Ev(i) = ENDED) <=> (~hist[i] /\ TrailingSilence(i) = max_silence_chunks)
             /\ Ev(i) = ENDED => log[i].res.speech_ended_at = Some(i)
             /\ Ev(i) # ENDED => log[i].res.speech_ended_at = None
    /\ is_speaking => silence_chunks = TrailingSilence(Len(hist))
    /\ last_speech_end_time # None =>
          /\ last_speech_end_time[1] \in Frames
          /\ Ev(last_speech_end_time[1]) = ENDED
          /\ \A j \in Frames : j > last_speech_end_time[1] => Ev(j) # ENDED

\* C2 witness: an utterance with a silent frame, then speech again, has
\* ended and its end time is recorded
C2_Witness ==
    \E i \in Frames :
        /\ Ev(i) = ENDED
        /\ max_silence_chunks >= 2
        /\ last_speech_end_time = Some(i)
        /\ \E j \in Frames : \E k \in Frames :
              /\ j < k /\ k < i
              /\ log[j].was_speaking /\ ~hist[j] /\ hist[k]
              /\ \A f \in j..i : log[f].was_speaking

\* the single-utterance scenario: IDLE with a full pre-roll at frame s, k
\* speech frames, then only non-speech frames, more than max_silence_chunks
SingleUtterance(s, k) ==
    /\ s \in Frames /\ k >= 1 /\ s + k - 1 <= Len(log)
    /\ ~log[s].was_speaking
    /\ log[s].pre_len = pre_buffer_chunks
    /\ \A j \in s..(s + k - 1) : hist[j]
    /\ \A j \in (s + k)..Len(log) : ~hist[j]
    /\ Len(log) - (s + k) + 1 > max_silence_chunks

\* the events of the scenario, with `grace` CONTINUING events for silent frames
UtteranceEvents(s, k, grace) ==
    LET after == s..Len(log)
        silent == (s + k)..Len(log)
        ended == s + k + max_silence_chunks - 1
    IN  /\ Ev(s) = STARTED
        /\ Len(Chunks(s)) = pre_buffer_chunks + 1
        /\ Cardinality({j \in after : Ev(j) = STARTED}) = 1
        /\ \A j \in (s + 1)..(s + k - 1) : Ev(j) = CONTINUING /\ Chunks(j) = << j >>
        /\ Cardinality({j \in after : Ev(j) = CONTINUING /\ hist[j]}) = k - 1
        /\ Cardinality({j \in silent : Ev(j) = CONTINUING}) = grace
        /\ Ev(ended) = ENDED
        /\ Cardinality({j \in after : Ev(j) = ENDED}) = 1
        /\ Cardinality({j \in (log[s].wire_at + 1)..Len(wire) : wire[j] = EndSpeechMsg}) = 1
        /\ \A j \in (ended + 1)..Len(log) : Ev(j) = SILENCE /\ WireOf(j) = << >>
        /\ Len(wire) = log[ended].wire_at + 1

\* C3 (as claimed): max_silence_chunks grace CONTINUING events and ENDED at
\* the max_silence_chunks-th silent frame
C3_AsClaimed ==
    \A s \in Frames : \A k \in 1..Len(log) :
        SingleUtterance(s, k) => UtteranceEvents(s, k, max_silence_chunks)

\* C3 (amended): one STARTED with pre_roll_chunks + 1 chunks, k - 1
\* CONTINUING for the remaining speech frames, max_silence_chunks - 1 grace
\* CONTINUING for silent frames, one ENDED at the max_silence_chunks-th
\* silent frame, one end_speech message, nothing sent after ENDED.
C3_SingleUtteranceCounts ==
    \A s \in Frames : \A k \in 1..Len(log) :
        SingleUtterance(s, k) => UtteranceEvents(s, k, max_silence_chunks - 1)

\* C3 witness: the scenario with at least two speech frames, a grace
\* frame and a silent frame after ENDED
C3_Witness ==
    \E s \in Frames : \E k \in 2..Len(log) :
        /\ SingleUtterance(s, k)
        /\ max_silence_chunks >= 2
        /\ Ev(Len(log)) = SILENCE

(***************************************************************************)
(* Echo canceller (edda/audio/aec.py): the ReferenceBuffer ring and        *)
(* EchoCanceller.cancel_echo.                                              *)
(*                                                                         *)
(* The clock is time.monotonic() in sample periods, so that                *)
(* int(elapsed * sample_rate) is clock - playback_start_time.  The j-th    *)
(* sample registered since the ring was last cleared has the value j, and  *)
(* the ring's cleared value is 0.  Every ReferenceBuffer method runs under *)
(* the buffer's lock and is one step; cancel_echo takes one step per       *)
(* frame, and the other threads' calls may come between its frames.        *)
(***************************************************************************)
RingIndex == 0..(RingCapacity - 1)
ZeroRing == [idx \in RingIndex |-> 0]
Zeros(n) == [j \in 1..n |-> 0]

\* AecConfig.sample_rate, and a stream at twice that rate
AecRate == 16000
RegisterRates == {AecRate, AecRate + AecRate}

\* aec.py:311-315 -- number of samples after resampling to the AEC rate
ResampledLength(n, sample_rate) ==
    IF sample_rate # AecRate THEN (n * AecRate) \div sample_rate ELSE n

\* ReferenceBuffer.write: the ring after writing n samples, of which the
\* j-th has the value first + j.  A second slice longer than the ring cannot
\* be assigned: numpy raises ValueError after the first slice was stored and
\* before write_pos and total_written are updated.
RingWrite(ring, pos, n, first) ==
    LET space_at_end == RingCapacity - pos
        tail == [idx \in RingIndex |->
                    IF idx >= pos /\ idx - pos < Min(n, space_at_end)
                    THEN first + (idx - pos) + 1 ELSE ring[idx]]
    IN  IF n <= space_at_end
        THEN [samples |-> tail, raised |-> FALSE]
        ELSE IF n - space_at_end > RingCapacity
        THEN [samples |-> tail, raised |-> TRUE]
        ELSE [samples |-> [idx \in RingIndex |->
                              IF idx < n - space_at_end
                              THEN first + space_at_end + idx + 1 ELSE tail[idx]],
              raised |-> FALSE]

\* aec.py:166 -- playback is exhausted at this target position
ExhaustedLate(target, total) == target > total
Exhausted(target, total) == target >= total

\* ReferenceBuffer.read_for_time(num_samples, delay_samples), under the lock
ReadForTime(num_samples, delay_samples) ==
    IF playback_start_time = None
    THEN [ref |-> None, within |-> FALSE]
    ELSE LET samples_elapsed == (clock - playback_start_time[1]) - delay_samples
             target_sample == playback_start_sample + samples_elapsed
         IN  IF samples_elapsed < 0
             THEN [ref |-> Some(Zeros(num_samples)), within |-> TRUE]
             ELSE IF Exhausted(target_sample, total_written)
             THEN [ref |-> None, within |-> FALSE]
             ELSE [ref |-> Some([j \in 1..num_samples |->
                                   IF target_sample + (j - 1) < total_written
                                   THEN rb_samples[(target_sample + (j - 1)) % RingCapacity]
                                   ELSE 0]),
                   within |-> TRUE]

\* ReferenceBuffer.end_playback -- the timing after the call
EndPlaybackTimeKept(t) == t
EndPlaybackTime(t) == None

\* the external engine (pyaec Aec.cancel_echo): some function of the mic
\* frame and of where the reference frame is silent, that returns a
\* different frame
AecEngine(mic_frame, ref_frame) ==
    [j \in 1..Len(mic_frame) |->
        mic_frame[j] - (IF ref_frame[j] # 0 THEN 2 ELSE 1)]

\* a begin_playback_registration that cleared the timing as well
BeginPlaybackRegistrationClearsTime ==
    /\ rb_samples' = ZeroRing
    /\ write_pos' = 0
    /\ total_written' = 0
    /\ pending_start_sample' = 0
    /\ registered' = 0
    /\ playback_start_time' = None
    /\ UNCHANGED << aec_initialized, playback_start_sample,
                    clock, ce_pc, ce_mic, ce_i, ce_out, ce_result, ce_calls,
                    ce_gate, ce_frames, timing >>
    /\ UNCHANGED notAecVars

\* ReferenceBuffer.begin_playback_registration
BeginPlaybackRegistration ==
    /\ rb_samples' = ZeroRing
    /\ write_pos' = 0
    /\ total_written' = 0
    /\ pending_start_sample' = 0
    /\ registered' = 0
    /\ UNCHANGED << aec_initialized, playback_start_time, playback_start_sample,
                    clock, ce_pc, ce_mic, ce_i, ce_out, ce_result, ce_calls,
                    ce_gate, ce_frames, timing >>
    /\ UNCHANGED notAecVars

\* ReferenceBuffer.start_playback
StartPlayback ==
    /\ playback_start_time' = Some(clock)
    /\ playback_start_sample' = pending_start_sample
    /\ timing' = "started"
    /\ UNCHANGED << aec_initialized, rb_samples, write_pos, total_written,
                    pending_start_sample, clock, ce_pc, ce_mic, ce_i, ce_out,
                    ce_result, ce_calls, ce_gate, ce_frames, registered >>
    /\ UNCHANGED notAecVars

\* ReferenceBuffer.end_playback
EndPlayback ==
    /\ playback_start_time' = EndPlaybackTime(playback_start_time)
    /\ timing' = IF timing = "never" THEN "never" ELSE "ended"
    /\ UNCHANGED << aec_initialized, rb_samples, write_pos, total_written,
                    playback_start_sample, pending_start_sample, clock, ce_pc,
                    ce_mic, ce_i, ce_out, ce_result, ce_calls, ce_gate,
                    ce_frames, registered >>
    /\ UNCHANGED notAecVars

\* EchoCanceller.register_playback(pcm_bytes, sample_rate, auto_start,
\* is_first_chunk) with n samples of PCM
RegisterPlayback ==
    /\ UNCHANGED notAecVars
    /\ \E n \in 0..MaxRegister, sample_rate \in RegisterRates,
          auto_start \in BOOLEAN, is_first_chunk \in BOOLEAN :
       IF n = 0
       THEN UNCHANGED aecVars
       ELSE LET cleared == is_first_chunk
                ring0 == IF cleared THEN ZeroRing ELSE rb_samples
                pos0 == IF cleared THEN 0 ELSE write_pos
                total0 == IF cleared THEN 0 ELSE total_written
                reg0 == IF cleared THEN 0 ELSE registered
                len == ResampledLength(n, sample_rate)
                w == RingWrite(ring0, pos0, len, reg0)
            IN  /\ reg0 + len <= MaxWritten
                /\ rb_samples' = w.samples
                /\ registered' = reg0 + len
                /\ pending_start_sample' = IF cleared THEN 0 ELSE pending_start_sample
                /\ IF w.raised
                   THEN /\ write_pos' = pos0
                        /\ total_written' = total0
                        /\ UNCHANGED << playback_start_time, playback_start_sample, timing >>
                   ELSE /\ write_pos' = (pos0 + len) % RingCapacity
                        /\ total_written' = total0 + len
                        /\ IF auto_start /\ playback_start_time = None
                           THEN /\ playback_start_time' = Some(clock)
                                /\ playback_start_sample' = pending_start_sample'
                                /\ timing' = "started"
                           ELSE UNCHANGED << playback_start_time, playback_start_sample, timing >>
                /\ UNCHANGED << aec_initialized, clock, ce_pc, ce_mic, ce_i, ce_out,
                                ce_result, ce_calls, ce_gate, ce_frames >>

\* EchoCanceller.initialize succeeds (a failure changes nothing)
AecInitialize ==
    /\ ~aec_initialized
    /\ aec_initialized' = TRUE
    /\ UNCHANGED << rb_samples, write_pos, total_written, playback_start_time,
                    playback_start_sample, pending_start_sample, clock, ce_pc,
                    ce_mic, ce_i, ce_out, ce_result, ce_calls, ce_gate,
                    ce_frames, registered, timing >>
    /\ UNCHANGED notAecVars

\* EchoCanceller.reset: ReferenceBuffer.clear and the statistics
AecReset ==
    /\ rb_samples' = ZeroRing
    /\ write_pos' = 0
    /\ total_written' = 0
    /\ playback_start_time' = None
    /\ playback_start_sample' = 0
    /\ registered' = 0
    /\ timing' = IF timing = "never" THEN "never" ELSE "ended"
    /\ UNCHANGED << aec_initialized, pending_start_sample, clock, ce_pc, ce_mic,
                    ce_i, ce_out, ce_result, ce_calls, ce_gate, ce_frames >>
    /\ UNCHANGED notAecVars

\* the monotonic clock advances by one sample period
Tick ==
    /\ clock < MaxClock
    /\ clock' = clock + 1
    /\ UNCHANGED << aec_initialized, rb_samples, write_pos, total_written,
                    playback_start_time, playback_start_sample,
                    pending_start_sample, ce_pc, ce_mic, ce_i, ce_out, ce_result,
                    ce_calls, ce_gate, ce_frames, registered, timing >>
    /\ UNCHANGED notAecVars

\* the microphone buffers: len samples, the j-th with the value j
MicInput(len) == [j \in 1..len |-> j]

\* EchoCanceller.cancel_echo, lines 345-362: the two early returns, or the
\* entry into the frame loop
CancelEchoCall ==
    /\ ce_pc = "idle"
    /\ \E len \in 0..MaxMic :
          LET mic == MicInput(len)
          IN  /\ ce_mic' = mic
              /\ ce_gate' = [initialized |-> aec_initialized,
                             timed |-> playback_start_time # None,
                             started |-> timing = "started"]
              /\ ce_calls' = 0
              /\ ce_frames' = {}
              /\ ce_i' = 0
              /\ ce_out' = << >>
              /\ IF ~aec_initialized \/ playback_start_time = None
                 THEN /\ ce_result' = Some(mic)
                      /\ ce_pc' = "idle"
                 ELSE /\ ce_result' = None
                      /\ ce_pc' = "frames"
    /\ UNCHANGED << aec_initialized, rb_samples, write_pos, total_written,
                    playback_start_time, playback_start_sample,
                    pending_start_sample, clock, registered, timing >>
    /\ UNCHANGED notAecVars

\* a frame appended to the output without cutting the padding off
Padded(frame, original_len) == frame

\* aec.py:386-391 -- the frame as it is appended to output_samples: cut back
\* to the length it had before it was padded
Truncated(frame, original_len) == SubSeq(frame, 1, original_len)

\* EchoCanceller.cancel_echo, lines 364-391: one iteration of the frame loop
CancelEchoFrame ==
    /\ ce_pc = "frames"
    /\ ce_i < Len(ce_mic)
    /\ LET original_len == Min(FrameSize, Len(ce_mic) - ce_i)
           mic_frame == [j \in 1..FrameSize |->
                            IF j <= original_len THEN ce_mic[ce_i + j] ELSE 0]
           rd == ReadForTime(FrameSize, DelaySamples)
           has_ref == rd.ref # None /\ rd.within
           position == IF playback_start_time = None THEN None
                       ELSE Some(playback_start_sample
                                 + (clock - playback_start_time[1]) - DelaySamples)
       IN  \E engine_ok \in BOOLEAN :
              LET out_frame == IF has_ref /\ engine_ok
                               THEN AecEngine(mic_frame, rd.ref[1])
                               ELSE mic_frame
              IN  /\ has_ref \/ engine_ok
                  /\ ce_out' = ce_out \o Truncated(out_frame, original_len)
                  /\ ce_calls' = IF has_ref THEN ce_calls + 1 ELSE ce_calls
                  /\ ce_frames' = ce_frames \cup
                        {[timed |-> position # None,
                          exhausted |-> position # None /\ position[1] >= total_written,
                          nonempty |-> total_written > 0,
                          has_ref |-> rd.ref # None,
                          engine_called |-> has_ref,
                          raised |-> has_ref /\ ~engine_ok,
                          unchanged |-> SubSeq(out_frame, 1, original_len)
                                        = SubSeq(ce_mic, ce_i + 1, ce_i + original_len)]}
    /\ ce_i' = ce_i + FrameSize
    /\ UNCHANGED << aec_initialized, rb_samples, write_pos, total_written,
                    playback_start_time, playback_start_sample,
                    pending_start_sample, clock, ce_pc, ce_mic, ce_result,
                    ce_gate, registered, timing >>
    /\ UNCHANGED notAecVars

\* EchoCanceller.cancel_echo, lines 399-403: the loop is over
CancelEchoReturn ==
    /\ ce_pc = "frames"
    /\ ce_i >= Len(ce_mic)
    /\ ce_result' = Some(IF ce_out # << >> THEN ce_out ELSE ce_mic)
    /\ ce_pc' = "idle"
    /\ UNCHANGED << aec_initialized, rb_samples, write_pos, total_written,
                    playback_start_time, playback_start_sample,
                    pending_start_sample, clock, ce_mic, ce_i, ce_out, ce_calls,
                    ce_gate, ce_frames, registered, timing >>
    /\ UNCHANGED notAecVars

\* EchoCanceller.__init__ and ReferenceBuffer.__init__
InitAec ==
    /\ aec_initialized = FALSE
    /\ rb_samples = ZeroRing
    /\ write_pos = 0
    /\ total_written = 0
    /\ playback_start_time = None
    /\ playback_start_sample = 0
    /\ pending_start_sample = 0
    /\ clock = 0
    /\ ce_pc = "idle"
    /\ ce_mic = << >>
    /\ ce_i = 0
    /\ ce_out = << >>
    /\ ce_result = None
    /\ ce_calls = 0
    /\ ce_gate = [initialized |-> FALSE, timed |-> FALSE, started |-> FALSE]
    /\ ce_frames = {}
    /\ registered = 0
    /\ timing = "never"

NextAec ==
    \/ AecInitialize
    \/ BeginPlaybackRegistration
    \/ RegisterPlayback
    \/ StartPlayback
    \/ EndPlayback
    \/ AecReset
    \/ Tick
    \/ CancelEchoCall
    \/ CancelEchoFrame
    \/ CancelEchoReturn

(***************************************************************************)
(* Player and dispatcher (edda/audio/playback.py, edda/network/handler.py).*)
(*                                                                         *)
(* The dispatcher handles one message at a time; a blocking play_wav keeps *)
(* it busy until the sink returns.  The writer thread of a stream, the     *)
(* play thread of an asynchronous WAV and the sink processes run on their  *)
(* own and take their steps in any order.  _stream_proc, _stream_thread    *)
(* and _stream_q are assigned and cleared together and are one variable;   *)
(* _stream_stop is set and cleared inside one locked call and is left out. *)
(* The player is built as client.py builds it: without an echo canceller.  *)
(***************************************************************************)

\* the queue's items: the end-of-stream sentinel (None in the program), a
\* chunk of the stream the queue was made for, a chunk of another stream
END == "end"
OWN == "own"
FOREIGN == "foreign"

StreamKinds == {"loading", "tts"}
CacheKeys == {"wake"}

\* a sink process just spawned: a raw-PCM stream sink with its writer thread
\* and queue (start_stream), or a WAV sink (play_wav, play_wav_async).  A
\* stream with a tempo other than 1.0 is a shell running sox | aplay.
NewStream(shell) ==
    [kind |-> "stream", state |-> "alive", shell |-> shell, thread |-> "running",
     q |-> << >>]
NewWav(async) ==
    [kind |-> "wav", state |-> "alive", shell |-> FALSE,
     thread |-> IF async THEN "running" ELSE "none", q |-> << >>]

\* a sink that is gone and whose thread has ended: nothing refers to its
\* queue any more and nothing about it can change
Gone == [kind |-> "gone", state |-> "dead", shell |-> FALSE, thread |-> "exited",
         q |-> << >>]

\* the sink is rendering: the process, or the pipeline a killed shell left
Rendering(r) == r.state \in {"alive", "orphaned"}

\* threading.Thread.is_alive
ThreadAlive(r) == r.thread \in {"running", "closing"}

\* the processes with those that are over forgotten; a blocking play_wav's
\* sink has no thread and is over when play_wav returns
Settled(ps) ==
    [p \in DOMAIN ps |->
        IF ~Rendering(ps[p]) /\ ~ThreadAlive(ps[p]) THEN Gone ELSE ps[p]]

\* Popen.kill then wait(timeout=1.0): SIGKILL reaches the process the player
\* spawned; of a shell pipeline that is the shell, and sox | aplay live on
\* until their input closes
KillProc(r) ==
    [r EXCEPT !.state = IF r.state = "alive"
                        THEN (IF r.shell THEN "orphaned" ELSE "dead")
                        ELSE r.state]

\* Queue.put_nowait with the exception swallowed, and Queue.put giving up
\* after its timeout: a full queue drops the item.  A queue whose writer
\* thread has ended is read by nobody and its content is not kept.
PutNowait(r, item) ==
    IF ThreadAlive(r) /\ Len(r.q) < QueueMaxsize
    THEN [r EXCEPT !.q = Append(@, item)]
    ELSE r

\* AudioPlayer._reap_stream_locked: _stream_proc after the call
Reaped(sp) ==
    IF sp # None /\ ~ThreadAlive(procs[sp[1]]) THEN None ELSE sp

\* AudioPlayer.stop_current: the processes after _reap_stream_locked,
\* _stop_stream_locked and _current_handle.stop(); the stream fields and the
\* handle are None afterwards
StoppedProcs ==
    [p \in DOMAIN procs |->
        IF Reaped(stream_proc) = Some(p)
        THEN KillProc(PutNowait(procs[p], END))
        ELSE IF current_handle = Some(p)
        THEN KillProc(procs[p])
        ELSE procs[p]]

\* AudioPlayer.play_wav, up to the blocking communicate: nothing is stopped
PlayWavProcs(ps) == Append(ps, NewWav(FALSE))

\* MessageHandler._log_ttfa, when do holds; the detector is left alone otherwise
LogTtfa(do) ==
    /\ last_speech_end_time' = IF do THEN None ELSE last_speech_end_time
    /\ UNCHANGED << pre_buffer_chunks, max_silence_chunks, pre_buffer, is_speaking,
                    silence_chunks, chunks_sent, speech_start_time, wire, hist, log >>

\* the response a message belongs to: a response is over once its
\* ResponseComplete and its last sentence were both handled
ResponseOver == response.rc /\ response.idx = response.total

\* InputPipeline.run with echo cancellation disabled: the capture loop sleeps
\* instead of reading the microphone
CapturePaused == playback_event

\* MessageHandler._handle_stream_start
HandleStreamStart ==
    /\ busy = None
    /\ Len(procs) < MaxProcs
    /\ \E kind \in StreamKinds, ok \in BOOLEAN, shell \in BOOLEAN :
          /\ playback_event' = TRUE
          /\ tts_first_chunk' = IF kind = "tts" THEN TRUE ELSE tts_first_chunk
          /\ current_handle' = None
          /\ IF ok
             THEN /\ procs' = Settled(Append(StoppedProcs, NewStream(shell)))
                  /\ stream_proc' = Some(Len(procs) + 1)
                  /\ stream_kind' = Some(kind)
                  /\ announced' = Some(Len(procs) + 1)
             ELSE /\ ~shell
                  /\ procs' = Settled(StoppedProcs)
                  /\ stream_proc' = None
                  /\ stream_kind' = None
                  /\ announced' = None
    /\ UNCHANGED << pending_response_complete, busy, cache_keys, misrouted,
                    response >>
    /\ UNCHANGED notPlayerVars

\* MessageHandler._handle_stream_chunk with AudioPlayer.write_stream: the
\* chunk belongs to the stream announced last; a full queue drops it after
\* the put's 0.25 s
HandleStreamChunk ==
    /\ busy = None
    /\ \E kind \in StreamKinds :
          /\ LogTtfa(tts_first_chunk /\ kind = "tts")
          /\ tts_first_chunk' = IF kind = "tts" THEN FALSE ELSE tts_first_chunk
    /\ procs' = IF stream_proc = None THEN procs
                ELSE [procs EXCEPT ![stream_proc[1]] =
                         PutNowait(@, IF stream_proc = announced THEN OWN ELSE FOREIGN)]
    /\ UNCHANGED << stream_proc, stream_kind, current_handle, playback_event,
                    pending_response_complete, busy, cache_keys, announced,
                    misrouted, response >>
    /\ UNCHANGED << aecVars, restVars >>

\* MessageHandler._handle_stream_end with AudioPlayer.end_stream
HandleStreamEnd ==
    /\ busy = None
    /\ procs' = IF stream_proc = None THEN procs
                ELSE [procs EXCEPT ![stream_proc[1]] = PutNowait(@, END)]
    /\ stream_proc' = Reaped(stream_proc)
    /\ stream_kind' = IF Reaped(stream_proc) = None THEN None ELSE stream_kind
    /\ UNCHANGED << current_handle, playback_event, pending_response_complete,
                    tts_first_chunk, busy, cache_keys, announced, misrouted, response >>
    /\ UNCHANGED notPlayerVars

\* the response ledger after one more AudioSentence: the next sentence of the
\* current response, or the first of a new one
SentenceOf(total) ==
    IF ResponseOver
    THEN [idx |-> 1, total |-> total, rc |-> FALSE]
    ELSE IF response.idx = 0
    THEN [response EXCEPT !.idx = 1, !.total = total]
    ELSE [response EXCEPT !.idx = @ + 1]

\* MessageHandler._handle_sentence up to the awaited play_wav_sentence
HandleSentence ==
    /\ busy = None
    /\ Len(procs) < MaxProcs
    /\ ResponseOver \/ response.idx = 0 \/ response.idx < response.total
    /\ \E total \in 1..MaxSentences :
          /\ response' = SentenceOf(total)
          /\ LogTtfa(response'.idx = 1)
          /\ busy' = Some([proc |-> Len(procs) + 1,
                           final |-> response'.idx = response'.total])
    /\ playback_event' = TRUE
    /\ procs' = Settled(PlayWavProcs(StoppedProcs))
    /\ stream_proc' = None
    /\ stream_kind' = None
    /\ current_handle' = None
    /\ UNCHANGED << pending_response_complete, tts_first_chunk, cache_keys,
                    announced, misrouted >>
    /\ UNCHANGED << aecVars, restVars >>

\* AudioPlayer.play_wav_async: stop_current, then the sink and its handle
PlayWavAsync ==
    /\ procs' = Settled(Append(StoppedProcs, NewWav(TRUE)))
    /\ stream_proc' = None
    /\ stream_kind' = None
    /\ current_handle' = Some(Len(procs) + 1)

\* MessageHandler._handle_loading
HandleLoading ==
    /\ busy = None
    /\ Len(procs) < MaxProcs
    /\ playback_event' = TRUE
    /\ PlayWavAsync
    /\ UNCHANGED << pending_response_complete, tts_first_chunk, busy, cache_keys,
                    announced, misrouted, response >>
    /\ UNCHANGED notPlayerVars

\* MessageHandler._handle_playback up to the awaited play_wav
HandlePlayback ==
    /\ busy = None
    /\ Len(procs) < MaxProcs
    /\ \E first \in BOOLEAN : LogTtfa(first)
    /\ playback_event' = TRUE
    /\ procs' = Settled(PlayWavProcs(StoppedProcs))
    /\ stream_proc' = None
    /\ stream_kind' = None
    /\ current_handle' = None
    /\ busy' = Some([proc |-> Len(procs) + 1, final |-> FALSE])
    /\ UNCHANGED << pending_response_complete, tts_first_chunk, cache_keys,
                    announced, misrouted, response >>
    /\ UNCHANGED << aecVars, restVars >>

\* MessageHandler._handle_cache_play: on a hit a looping prompt goes through
\* play_wav_async, any other through the blocking play_wav
HandleCachePlay ==
    /\ busy = None
    /\ Len(procs) < MaxProcs
    /\ \E key \in CacheKeys, loop \in BOOLEAN :
          IF key \in cache_keys
          THEN /\ playback_event' = TRUE
               /\ IF loop
                  THEN /\ PlayWavAsync
                       /\ busy' = busy
                  ELSE /\ procs' = PlayWavProcs(procs)
                       /\ busy' = Some([proc |-> Len(procs) + 1, final |-> FALSE])
                       /\ UNCHANGED << stream_proc, stream_kind, current_handle >>
          ELSE /\ ~loop
               /\ UNCHANGED << procs, stream_proc, stream_kind, current_handle,
                               playback_event, busy >>
    /\ UNCHANGED << pending_response_complete, tts_first_chunk, cache_keys,
                    announced, misrouted, response >>
    /\ UNCHANGED notPlayerVars

\* MessageHandler._handle_cache_store: a key already stored is neither stored
\* nor played; CacheManager.store may fail and the prompt is played anyway
HandleCacheStore ==
    /\ busy = None
    /\ Len(procs) < MaxProcs
    /\ \E key \in CacheKeys, stored \in BOOLEAN :
          /\ key \notin cache_keys
          /\ cache_keys' = IF stored THEN cache_keys \cup {key} ELSE cache_keys
    /\ playback_event' = TRUE
    /\ PlayWavAsync
    /\ UNCHANGED << pending_response_complete, tts_first_chunk, busy,
                    announced, misrouted, response >>
    /\ UNCHANGED notPlayerVars

\* MessageHandler._handle_response_complete
HandleResponseComplete ==
    /\ busy = None
    /\ ~response.rc \/ ResponseOver
    /\ response' = IF response.rc
                   THEN [idx |-> 0, total |-> 0, rc |-> TRUE]
                   ELSE [response EXCEPT !.rc = TRUE]
    /\ pending_response_complete' = TRUE
    /\ procs' = Settled(StoppedProcs)
    /\ stream_proc' = None
    /\ stream_kind' = None
    /\ current_handle' = None
    /\ playback_event' = FALSE
    /\ UNCHANGED << tts_first_chunk, busy, cache_keys, announced, misrouted >>
    /\ UNCHANGED notPlayerVars

\* AudioPlayer.play_wav returns (the sink exited, or was killed at the 30 s
\* timeout) and the awaiting handler runs to its end; _handle_sentence then
\* clears playback_active after a final sentence if the flag is pending
PlayWavReturns ==
    /\ busy # None
    /\ procs' = Settled([procs EXCEPT ![busy[1].proc].state = "dead"])
    /\ busy' = None
    /\ IF busy[1].final
       THEN /\ playback_event' = IF pending_response_complete THEN FALSE
                                 ELSE playback_event
            /\ pending_response_complete' = FALSE
       ELSE UNCHANGED << playback_event, pending_response_complete >>
    /\ UNCHANGED << stream_proc, stream_kind, current_handle, tts_first_chunk,
                    cache_keys, announced, misrouted, response >>
    /\ UNCHANGED notPlayerVars

\* the writer thread (_writer in start_stream) takes one item: the sentinel,
\* or a chunk that fails on a dead sink, ends the loop and closes stdin; a
\* chunk is written to the thread's own sink
WriterStep(p) ==
    /\ procs[p].kind = "stream"
    /\ procs[p].thread = "running"
    /\ procs[p].q # << >>
    /\ LET item == Head(procs[p].q)
       IN  /\ procs' = [procs EXCEPT
                   ![p].q = Tail(@),
                   ![p].thread = IF item = END \/ ~Rendering(procs[p])
                                 THEN "closing" ELSE @]
           /\ misrouted' = (misrouted \/ (item = FOREIGN /\ Rendering(procs[p])))
    /\ UNCHANGED << stream_proc, stream_kind, current_handle, playback_event,
                    pending_response_complete, tts_first_chunk, busy, cache_keys,
                    announced, response >>
    /\ UNCHANGED notPlayerVars

\* the writer thread blocked in stdin.write on a sink that was killed gets
\* BrokenPipeError and ends its loop
WriterBrokenPipe(p) ==
    /\ procs[p].kind = "stream"
    /\ procs[p].thread = "running"
    /\ procs[p].state = "dead"
    /\ procs' = [procs EXCEPT ![p].thread = "closing", ![p].q = << >>]
    /\ UNCHANGED << stream_proc, stream_kind, current_handle, playback_event,
                    pending_response_complete, tts_first_chunk, busy, cache_keys,
                    announced, misrouted, response >>
    /\ UNCHANGED notPlayerVars

\* the writer thread's finally: stdin is closed, proc.wait(timeout=1.0)
\* returns or times out (the sink is still draining), and the thread ends
WriterExits(p) ==
    /\ procs[p].thread = "closing"
    /\ procs' = Settled([procs EXCEPT ![p].thread = "exited", ![p].q = << >>])
    /\ UNCHANGED << stream_proc, stream_kind, current_handle, playback_event,
                    pending_response_complete, tts_first_chunk, busy, cache_keys,
                    announced, misrouted, response >>
    /\ UNCHANGED notPlayerVars

\* a sink has played all it was given and exits: a WAV sink played by a
\* thread, or a stream sink whose stdin was closed
SinkExits(p) ==
    /\ Rendering(procs[p])
    /\ \/ procs[p].kind = "wav" /\ procs[p].thread # "none"
       \/ procs[p].kind = "stream" /\ procs[p].thread \in {"closing", "exited"}
    /\ procs' = Settled([procs EXCEPT ![p].state = "dead"])
    /\ UNCHANGED << stream_proc, stream_kind, current_handle, playback_event,
                    pending_response_complete, tts_first_chunk, busy, cache_keys,
                    announced, misrouted, response >>
    /\ UNCHANGED notPlayerVars

\* _play_thread of play_wav_async: communicate returns once the sink is gone,
\* or times out after 30 s and kills it
PlayThreadExits(p) ==
    /\ procs[p].kind = "wav"
    /\ procs[p].thread = "running"
    /\ procs' = Settled([procs EXCEPT ![p].thread = "exited",
                                      ![p].state = "dead"])
    /\ UNCHANGED << stream_proc, stream_kind, current_handle, playback_event,
                    pending_response_complete, tts_first_chunk, busy, cache_keys,
                    announced, misrouted, response >>
    /\ UNCHANGED notPlayerVars

\* AudioPlayer.__init__, MessageHandler.__init__, an empty cache
InitPlayer ==
    /\ procs = << >>
    /\ stream_proc = None
    /\ stream_kind = None
    /\ current_handle = None
    /\ playback_event = FALSE
    /\ pending_response_complete = FALSE
    /\ tts_first_chunk = TRUE
    /\ busy = None
    /\ cache_keys = {}
    /\ announced = None
    /\ misrouted = FALSE
    /\ response = [idx |-> 0, total |-> 0, rc |-> FALSE]

\* the threads and sinks of every process spawned so far
WriterSteps == \E p \in DOMAIN procs : WriterStep(p)
WriterBreaks == \E p \in DOMAIN procs : WriterBrokenPipe(p)
WriterEnds == \E p \in DOMAIN procs : WriterExits(p)
SinkEnds == \E p \in DOMAIN procs : SinkExits(p)
PlayThreadEnds == \E p \in DOMAIN procs : PlayThreadExits(p)

NextPlayer ==
    \/ HandleStreamStart
    \/ HandleStreamChunk
    \/ HandleStreamEnd
    \/ HandleSentence
    \/ HandleLoading
    \/ HandlePlayback
    \/ HandleCachePlay
    \/ HandleCacheStore
    \/ HandleResponseComplete
    \/ PlayWavReturns
    \/ WriterSteps
    \/ WriterBreaks
    \/ WriterEnds
    \/ SinkEnds
    \/ PlayThreadEnds

(***************************************************************************)
(* Session coordinator (client.py): main, connect_and_stream and the two   *)
(* tasks of a session.  The capture task is followed await by await; the   *)
(* receive task is followed through what it shares with the capture task,  *)
(* the playback_active event (its handlers' work on the player is the      *)
(* subject of the player part and is left alone here).                     *)
(***************************************************************************)
\* the player's state other than the playback_active event
playerRest == << procs, stream_proc, stream_kind, current_handle,
                 pending_response_complete, tts_first_chunk, busy, cache_keys,
                 announced, misrouted, response >>

\* the exceptions that end a task or a session
AudioStallError == "AudioStallError"
ConnectionClosed == "ConnectionClosed"
ConnectionRefusedError == "ConnectionRefusedError"
OSError == "OSError"
RuntimeError == "RuntimeError"
GenericException == "Exception"
CancelledError == "CancelledError"
KeyboardInterrupt == "KeyboardInterrupt"

\* how a task can have finished
CaptureOutcomes == {AudioStallError, OSError, RuntimeError, CancelledError}
ReceiveOutcomes == {ConnectionClosed, GenericException, "returned", CancelledError}
CaptureDone == cap_pc \in CaptureOutcomes
ReceiveDone == recv_pc \in ReceiveOutcomes

\* the process's exit status: sys.exit(code), or 0 when asyncio.run(main())
\* returns and the script ends
SysExit(code) == code
ScriptEnd == 0

\* the process terminates
Terminate(status, cause) ==
    /\ main_pc' = "exited"
    /\ exit_status' = Some(status)
    /\ exit_cause' = cause

\* AudioDevice.open_input_stream: None without an initialised device, else
\* what PyAudio.open gives (a stream, or an OSError it raises)
OpenInputStream(initialized, pa_fails) ==
    IF ~initialized THEN "None"
    ELSE IF pa_fails THEN OSError ELSE "stream"

\* a close_stream that leaves the stream open
LeftOpen(open, cur) == open

\* AudioDevice.close_stream: the open streams after it
Closed(open, cur) == IF cur = None THEN open ELSE open \ {cur[1]}

\* AudioDevice.close_stream, called by the finally clause of capture_and_send
CloseStream ==
    /\ open_streams' = Closed(open_streams, device_stream)
    /\ device_stream' = None

\* the capture task is inside the try block of capture_and_send: cancelling
\* it runs the finally clause
InTryBlock == cap_pc \in {"check", "sleep", "read"}

\* load_config (client.py:30-37), called first by main
LoadConfig ==
    /\ main_pc = "load_config"
    /\ \E readable \in BOOLEAN :
          IF readable
          THEN main_pc' = "initialize" /\ UNCHANGED << exit_status, exit_cause >>
          ELSE Terminate(SysExit(1), "config")
    /\ UNCHANGED << cap_pc, recv_pc, session_no, last_end, device_stream, open_streams >>
    /\ UNCHANGED << detVars, aecVars, playerVars, rxVars, streamVars, cacheVars, lateVars >>

\* main: device.initialize() (client.py:388-391)
DeviceInitialize ==
    /\ main_pc = "initialize"
    /\ \E found \in BOOLEAN :
          IF found
          THEN main_pc' = "load_vad" /\ UNCHANGED << exit_status, exit_cause >>
          ELSE Terminate(ScriptEnd, "device")
    /\ UNCHANGED << cap_pc, recv_pc, session_no, last_end, device_stream, open_streams >>
    /\ UNCHANGED << detVars, aecVars, playerVars, rxVars, streamVars, cacheVars, lateVars >>

\* main: processor.load_vad_model() (client.py:393-397)
LoadVadModel ==
    /\ main_pc = "load_vad"
    /\ \E loaded \in BOOLEAN :
          IF loaded
          THEN main_pc' = "connect" /\ UNCHANGED << exit_status, exit_cause >>
          ELSE Terminate(ScriptEnd, "vad")
    /\ UNCHANGED << cap_pc, recv_pc, session_no, last_end, device_stream, open_streams >>
    /\ UNCHANGED << detVars, aecVars, playerVars, rxVars, streamVars, cacheVars, lateVars >>

\* connect_and_stream's except clauses (client.py:343-356) followed by
\* detector.reset() (358), up to the await of the reconnect delay (359)
SessionOver(exc, capture_cancelled) ==
    IF exc = AudioStallError
    THEN /\ Terminate(SysExit(1), AudioStallError)
         /\ UNCHANGED << session_no, last_end >>
         /\ UNCHANGED detVars
    ELSE /\ Reset
         /\ main_pc' = "sleep"
         /\ session_no' = session_no + 1
         /\ last_end' = Some([cause |-> exc, mid_utterance |-> is_speaking,
                              capture_cancelled |-> capture_cancelled])
         /\ UNCHANGED << exit_status, exit_cause >>

\* connect_and_stream: async with connection.connect() (client.py:313-326);
\* a connection gets a new playback_active event and the two tasks
Connect ==
    /\ main_pc = "connect"
    /\ session_no < MaxSessions
    /\ \E outcome \in {"connected", ConnectionRefusedError, OSError, GenericException} :
          IF outcome = "connected"
          THEN /\ main_pc' = "session"
               /\ playback_event' = FALSE
               /\ cap_pc' = "open"
               /\ recv_pc' = "running"
               /\ UNCHANGED << session_no, exit_status, exit_cause, last_end >>
               /\ UNCHANGED detVars
          ELSE /\ SessionOver(outcome, FALSE)
               /\ UNCHANGED << cap_pc, recv_pc, playback_event >>
    /\ UNCHANGED << device_stream, open_streams >>
    /\ UNCHANGED << aecVars, playerRest, rxVars, streamVars, cacheVars, lateVars >>

\* capture_and_send: device.open_input_stream() (client.py:249-251)
CaptureOpen ==
    /\ main_pc = "session"
    /\ cap_pc = "open"
    /\ \E pa_fails \in BOOLEAN :
          LET stream == OpenInputStream(TRUE, pa_fails)
          IN /\ cap_pc' = IF stream = "None" THEN RuntimeError
                          ELSE IF stream = OSError THEN OSError
                          ELSE "check"
             /\ device_stream' = IF stream = "stream" THEN Some(session_no)
                                 ELSE device_stream
             /\ open_streams' = IF stream = "stream" THEN open_streams \cup {session_no}
                                ELSE open_streams
    /\ UNCHANGED << main_pc, recv_pc, session_no, exit_status, exit_cause, last_end >>
    /\ UNCHANGED << detVars, aecVars, playerVars, rxVars, streamVars, cacheVars, lateVars >>

\* capture_and_send: the pause check at the top of the loop (client.py:260-262)
CaptureCheck ==
    /\ main_pc = "session"
    /\ cap_pc = "check"
    /\ cap_pc' = IF playback_event THEN "sleep" ELSE "read"
    /\ UNCHANGED << main_pc, recv_pc, session_no, exit_status, exit_cause, last_end,
                    device_stream, open_streams >>
    /\ UNCHANGED << detVars, aecVars, playerVars, rxVars, streamVars, cacheVars, lateVars >>

\* capture_and_send: asyncio.sleep(0.05) is over, continue (client.py:261-262)
CaptureWakes ==
    /\ main_pc = "session"
    /\ cap_pc = "sleep"
    /\ cap_pc' = "check"
    /\ UNCHANGED << main_pc, recv_pc, session_no, exit_status, exit_cause, last_end,
                    device_stream, open_streams >>
    /\ UNCHANGED << detVars, aecVars, playerVars, rxVars, streamVars, cacheVars, lateVars >>

\* capture_and_send: the awaited device read is over (client.py:267-277); a
\* frame goes through the VAD, detector.process and the sends (280-298)
CaptureRead ==
    /\ main_pc = "session"
    /\ cap_pc = "read"
    /\ \/ /\ cap_pc' = AudioStallError
          /\ CloseStream
          /\ UNCHANGED detVars
       \/ /\ Len(hist) < MaxSessionFrames
          /\ cap_pc' = "check"
          /\ UNCHANGED << device_stream, open_streams >>
          /\ \E is_speech \in BOOLEAN :
                \/ ProcessSpeaking(NextFrame, is_speech)
                \/ ProcessSilent(NextFrame, is_speech)
    /\ UNCHANGED << main_pc, recv_pc, session_no, exit_status, exit_cause, last_end >>
    /\ UNCHANGED << aecVars, playerVars, rxVars, streamVars, cacheVars, lateVars >>

\* receive_messages: a handler sets playback_active (client.py:55, 108, 149,
\* 170, 189, 221)
ReceivePause ==
    /\ main_pc = "session"
    /\ recv_pc = "running"
    /\ ~playback_event
    /\ playback_event' = TRUE
    /\ UNCHANGED sessVars
    /\ UNCHANGED << detVars, aecVars, playerRest, rxVars, streamVars, cacheVars, lateVars >>

\* receive_messages: a handler clears playback_active (client.py:140, 234-236)
ReceiveResume ==
    /\ main_pc = "session"
    /\ recv_pc = "running"
    /\ playback_event
    /\ playback_event' = FALSE
    /\ UNCHANGED sessVars
    /\ UNCHANGED << detVars, aecVars, playerRest, rxVars, streamVars, cacheVars, lateVars >>

\* receive_messages ends: the websocket's iteration ends, raises
\* ConnectionClosed (client.py:238-239), or a handler raises
ReceiveEnds ==
    /\ main_pc = "session"
    /\ recv_pc = "running"
    /\ recv_pc' \in {ConnectionClosed, GenericException, "returned"}
    /\ UNCHANGED << main_pc, cap_pc, session_no, exit_status, exit_cause, last_end,
                    device_stream, open_streams >>
    /\ UNCHANGED << detVars, aecVars, playerVars, rxVars, streamVars, cacheVars, lateVars >>

\* the exceptions task.result() can raise for the tasks in done
DoneExceptions ==
    (IF CaptureDone THEN {cap_pc} ELSE {}) \cup
    (IF ReceiveDone /\ recv_pc # "returned" THEN {recv_pc} ELSE {})

\* connect_and_stream: asyncio.wait returns (client.py:328-331), the pending
\* task is cancelled and awaited (333-338), the results of the done tasks are
\* taken in the set's iteration order (340-341), and the session is over
SessionEnds ==
    /\ main_pc = "session"
    /\ CaptureDone \/ ReceiveDone
    /\ cap_pc' = IF CaptureDone THEN cap_pc ELSE CancelledError
    /\ recv_pc' = IF ReceiveDone THEN recv_pc ELSE CancelledError
    /\ IF InTryBlock THEN CloseStream ELSE UNCHANGED << device_stream, open_streams >>
    /\ IF DoneExceptions = {}
       THEN SessionOver("none", ~CaptureDone)
       ELSE \E exc \in DoneExceptions : SessionOver(exc, ~CaptureDone)
    /\ UNCHANGED << aecVars, playerVars, rxVars, streamVars, cacheVars, lateVars >>

\* connect_and_stream: the reconnect delay is over (client.py:359, 311)
Reconnect ==
    /\ main_pc = "sleep"
    /\ main_pc' = "connect"
    /\ UNCHANGED << cap_pc, recv_pc, session_no, exit_status, exit_cause, last_end,
                    device_stream, open_streams >>
    /\ UNCHANGED << detVars, aecVars, playerVars, rxVars, streamVars, cacheVars, lateVars >>

\* SIGINT: KeyboardInterrupt leaves asyncio.run, the tasks are cancelled and
\* the script ends (client.py:412-413, 422-426)
Interrupt ==
    /\ main_pc \in {"connect", "session", "sleep"}
    /\ Terminate(ScriptEnd, KeyboardInterrupt)
    /\ cap_pc' = IF cap_pc \in {"open", "check", "sleep", "read"} THEN CancelledError ELSE cap_pc
    /\ recv_pc' = IF recv_pc = "running" THEN CancelledError ELSE recv_pc
    /\ IF InTryBlock THEN CloseStream ELSE UNCHANGED << device_stream, open_streams >>
    /\ UNCHANGED << session_no, last_end >>
    /\ UNCHANGED << detVars, aecVars, playerVars, rxVars, streamVars, cacheVars, lateVars >>

\* the process before main runs
InitSession ==
    /\ main_pc = "load_config"
    /\ cap_pc = "none"
    /\ recv_pc = "none"
    /\ session_no = 0
    /\ exit_status = None
    /\ exit_cause = None
    /\ last_end = None
    /\ device_stream = None
    /\ open_streams = {}

\* a session already running, for the parts that follow one subsystem
InSession ==
    /\ main_pc = "session"
    /\ cap_pc = "check"
    /\ recv_pc = "running"
    /\ session_no = 0
    /\ exit_status = None
    /\ exit_cause = None
    /\ last_end = None
    /\ device_stream = Some(0)
    /\ open_streams = {0}

NextSession ==
    \/ LoadConfig
    \/ DeviceInitialize
    \/ LoadVadModel
    \/ Connect
    \/ CaptureOpen
    \/ CaptureCheck
    \/ CaptureWakes
    \/ CaptureRead
    \/ ReceivePause
    \/ ReceiveResume
    \/ ReceiveEnds
    \/ SessionEnds
    \/ Reconnect
    \/ Interrupt

(***************************************************************************)
(* Receive loop (edda/network/connection.py receive_messages and           *)
(* _parse_message, with the dispatcher of client.py receive_messages).     *)
(*                                                                         *)
(* A raw message is what matters to the parser: whether it is JSON and of  *)
(* which kind, its type tag, its data field (missing, not a string, or a   *)
(* text of base64 letters "A", padding "=" and other characters "!") and   *)
(* its numeric fields (missing, numbers, or text that is no number).       *)
(***************************************************************************)
\* MessageType
MessageTypes == {"audio_playback", "audio_loading", "audio_stream_start",
                 "audio_stream_chunk", "audio_stream_end", "audio_sentence",
                 "audio_cache_play", "audio_cache_store", "response_complete"}

\* the branches of _parse_message that read data["data"]
NeedsData(type) == type \in {"audio_playback", "audio_loading", "audio_stream_chunk",
                             "audio_sentence", "audio_cache_store"}

\* the branches of _parse_message that convert fields with int() or float()
ConvertsNumbers(type) == type \in {"audio_stream_start", "audio_sentence", "audio_cache_store"}

RECURSIVE TextsOfLength(_)
TextsOfLength(n) ==
    IF n = 0 THEN { << >> }
    ELSE { Append(t, c) : t \in TextsOfLength(n - 1), c \in {"A", "=", "!"} }

Base64Texts == UNION { TextsOfLength(n) : n \in 0..MaxBase64 }

\* a data field: missing, a JSON value that is no string, or a text
AbsentData == [kind |-> "absent", text |-> << >>]
DataFields ==
    {AbsentData, [kind |-> "nonstring", text |-> << >>]}
    \cup { [kind |-> "text", text |-> t] : t \in Base64Texts }

\* every raw message the websocket can deliver; the fields a branch of
\* _parse_message never reads are left out
RawMessages ==
    { [json |-> j, type |-> "absent", data |-> AbsentData, num |-> "absent"] :
          j \in {"invalid", "array", "scalar"} }
    \cup
    UNION { { [json |-> "object", type |-> t, data |-> d, num |-> n] :
                d \in IF NeedsData(t) THEN DataFields ELSE {AbsentData},
                n \in IF ConvertsNumbers(t) THEN {"absent", "number", "text"} ELSE {"absent"} } :
            t \in MessageTypes \cup {"status", "bogus", "absent"} }

\* base64.b64decode(s) with validate=False: binascii.a2b_base64 skips what is
\* not in the alphabet, stops at a completed pad sequence and requires whole
\* quads; the result is the number of bytes decoded, or DecodeError
DecodeError == -1

RECURSIVE A2bBase64(_, _, _, _, _)
A2bBase64(text, i, quad_pos, pads, nbytes) ==
    IF i > Len(text)
    THEN IF quad_pos # 0 THEN DecodeError ELSE nbytes
    ELSE IF text[i] = "="
    THEN IF quad_pos >= 2 /\ quad_pos + pads + 1 >= 4
         THEN nbytes
         ELSE A2bBase64(text, i + 1, quad_pos, pads + 1, nbytes)
    ELSE IF text[i] = "!"
    THEN A2bBase64(text, i + 1, quad_pos, pads, nbytes)
    ELSE A2bBase64(text, i + 1, (quad_pos + 1) % 4, 0,
                   IF quad_pos = 0 THEN nbytes ELSE nbytes + 1)

B64Decode(data) ==
    IF data.kind = "nonstring" THEN DecodeError ELSE A2bBase64(data.text, 1, 0, 0, 0)

\* ServerConnection._parse_message: the ServerMessage, or None for a message
\* that is logged and skipped
ParseMessage(raw) ==
    IF raw.json = "invalid" THEN None
    ELSE IF raw.json # "object" THEN None
    ELSE IF raw.type \notin MessageTypes THEN None
    ELSE IF NeedsData(raw.type) /\ raw.data.kind = "absent" THEN None
    ELSE IF NeedsData(raw.type) /\ B64Decode(raw.data) = DecodeError THEN None
    ELSE IF ConvertsNumbers(raw.type) /\ raw.num = "text" THEN None
    ELSE Some([type |-> raw.type,
               nbytes |-> IF NeedsData(raw.type) THEN B64Decode(raw.data) ELSE 0])

\* ServerConnection.receive_messages: the next raw message is read and
\* parsed; a message that parses is yielded to the dispatcher, any other is
\* skipped and the loop reads on
ReceiveRaw ==
    /\ recv_pc = "running"
    /\ rx_pc = "idle"
    /\ rx_count < MaxMessages
    /\ \E raw \in RawMessages :
          /\ rx_raw' = Some(raw)
          /\ rx_msg' = ParseMessage(raw)
          /\ rx_pc' = IF ParseMessage(raw) = None THEN "idle" ELSE "dispatch"
    /\ rx_handled' = FALSE
    /\ rx_count' = rx_count + 1
    /\ UNCHANGED << detVars, aecVars, playerVars, sessVars, streamVars, cacheVars, lateVars >>

\* client.py receive_messages: the handler of the yielded message, as far as
\* playback_active and pending_response_complete go
Dispatch ==
    /\ recv_pc = "running"
    /\ rx_pc = "dispatch"
    /\ rx_pc' = "idle"
    /\ rx_handled' = TRUE
    /\ LET type == rx_msg[1].type
       IN  \E flag \in BOOLEAN :
           IF type = "response_complete"
           THEN playback_event' = FALSE /\ pending_response_complete' = TRUE
           ELSE IF type = "audio_sentence"
           THEN /\ playback_event' = ~(flag /\ pending_response_complete)
                /\ pending_response_complete' = (pending_response_complete /\ ~flag)
           ELSE IF type \in {"audio_cache_play", "audio_cache_store"}
           THEN /\ playback_event' = (flag \/ playback_event)
                /\ UNCHANGED pending_response_complete
           ELSE IF type \in {"audio_stream_start", "audio_loading", "audio_playback"}
           THEN playback_event' = TRUE /\ UNCHANGED pending_response_complete
           ELSE UNCHANGED << playback_event, pending_response_complete >>
    /\ UNCHANGED << rx_raw, rx_msg, rx_count >>
    /\ UNCHANGED << procs, stream_proc, stream_kind, current_handle, tts_first_chunk,
                    busy, cache_keys, announced, misrouted, response >>
    /\ UNCHANGED << detVars, aecVars, sessVars, streamVars, cacheVars, lateVars >>

\* the receive loop before its first message
InitReceive ==
    /\ rx_pc = "idle"
    /\ rx_raw = None
    /\ rx_msg = None
    /\ rx_handled = FALSE
    /\ rx_count = 0

NextReceive ==
    \/ ReceiveRaw
    \/ Dispatch

(***************************************************************************)
(* One PCM stream, chunk by chunk (edda/audio/playback.py).  The chunks    *)
(* passed to write_stream while the stream is the player's active stream   *)
(* are numbered 1, 2, ... in the order of the calls; the sentinel None     *)
(* that end_stream and stop_current queue is SENTINEL.                     *)
(***************************************************************************)
SENTINEL == 0

\* queue.Queue.put(item, timeout=0.25) as write_stream uses it: the item is
\* queued, or the put times out on a full queue (queue.Full)
PutDropsOldest(q, item) ==
    IF Len(q) < StreamQueueSize
    THEN [q |-> Append(q, item), ok |-> TRUE]
    ELSE [q |-> Append(Tail(q), item), ok |-> TRUE]
Put(q, item) ==
    IF Len(q) < StreamQueueSize
    THEN [q |-> Append(q, item), ok |-> TRUE]
    ELSE [q |-> q, ok |-> FALSE]

\* AudioPlayer._reap_stream_locked: the stream is let go once its writer
\* thread has exited
ReapStream(active) == active /\ sw_thread = "running"

\* AudioPlayer.write_stream for the next chunk of the stream, by a player
\* with an echo canceller: the chunk is registered as reference, then put
\* on the queue
WriteStream ==
    /\ sw_active
    /\ sw_passed < MaxChunks
    /\ LET put == Put(sw_q, sw_passed + 1)
       IN  /\ sw_q' = put.q
           /\ sw_returned' = Append(sw_returned, put.ok)
    /\ sw_passed' = sw_passed + 1
    /\ sw_reference' = Append(sw_reference, sw_passed + 1)
    /\ UNCHANGED << sw_stdin, sw_thread, sw_sink, sw_active, sw_ended_at, sw_stopped,
                    sw_end_called >>
    /\ UNCHANGED << detVars, aecVars, playerVars, sessVars, rxVars, cacheVars, lateVars >>

\* AudioPlayer.end_stream: the sentinel is queued unless the queue is full,
\* then the stream is reaped if its writer has exited
EndStream ==
    /\ sw_active
    /\ sw_ended_at = None
    /\ sw_q' = Put(sw_q, SENTINEL).q
    /\ sw_ended_at' = IF Put(sw_q, SENTINEL).ok THEN Some(sw_passed) ELSE None
    /\ sw_active' = ReapStream(sw_active)
    /\ sw_end_called' = TRUE
    /\ UNCHANGED << sw_passed, sw_returned, sw_stdin, sw_thread, sw_sink, sw_stopped,
                    sw_reference >>
    /\ UNCHANGED << detVars, aecVars, playerVars, sessVars, rxVars, cacheVars, lateVars >>

\* AudioPlayer.stop_current: _reap_stream_locked, then _stop_stream_locked
\* sets the stop event, queues the sentinel, kills the sink and lets the
\* stream go; the writer may test the stop event while it is set
StopCurrent ==
    /\ sw_active
    /\ sw_active' = FALSE
    /\ IF ReapStream(sw_active)
       THEN /\ sw_stopped' = TRUE
            /\ sw_q' = Put(sw_q, SENTINEL).q
            /\ sw_sink' = IF sw_sink = "alive" THEN "killed" ELSE sw_sink
            /\ \E seen \in BOOLEAN : sw_thread' = IF seen THEN "done" ELSE sw_thread
       ELSE UNCHANGED << sw_stopped, sw_q, sw_sink, sw_thread >>
    /\ UNCHANGED << sw_passed, sw_returned, sw_stdin, sw_ended_at, sw_end_called,
                    sw_reference >>
    /\ UNCHANGED << detVars, aecVars, playerVars, sessVars, rxVars, cacheVars, lateVars >>

\* _writer: one turn of the loop -- q.get(), leave on the sentinel, write
\* the chunk to the sink's stdin, leave on BrokenPipeError
WriterTurn ==
    /\ sw_thread = "running"
    /\ sw_q # << >>
    /\ sw_q' = Tail(sw_q)
    /\ IF Head(sw_q) = SENTINEL
       THEN sw_thread' = "done" /\ UNCHANGED sw_stdin
       ELSE IF sw_sink = "alive"
       THEN sw_stdin' = Append(sw_stdin, Head(sw_q)) /\ UNCHANGED sw_thread
       ELSE sw_thread' = "done" /\ UNCHANGED sw_stdin
    /\ UNCHANGED << sw_passed, sw_returned, sw_sink, sw_active, sw_ended_at, sw_stopped,
                    sw_end_called, sw_reference >>
    /\ UNCHANGED << detVars, aecVars, playerVars, sessVars, rxVars, cacheVars, lateVars >>

\* the sink process exits on its own (aplay fails or loses its device)
SinkFails ==
    /\ sw_sink = "alive"
    /\ sw_sink' = "exited"
    /\ UNCHANGED << sw_q, sw_passed, sw_returned, sw_stdin, sw_thread, sw_active,
                    sw_ended_at, sw_stopped, sw_end_called, sw_reference >>
    /\ UNCHANGED << detVars, aecVars, playerVars, sessVars, rxVars, cacheVars, lateVars >>

\* start_stream has just returned True: sink spawned, queue empty, writer
\* thread started
InitStream ==
    /\ sw_q = << >>
    /\ sw_passed = 0
    /\ sw_returned = << >>
    /\ sw_stdin = << >>
    /\ sw_thread = "running"
    /\ sw_sink = "alive"
    /\ sw_active = TRUE
    /\ sw_ended_at = None
    /\ sw_stopped = FALSE
    /\ sw_end_called = FALSE
    /\ sw_reference = << >>

NextStream ==
    \/ WriteStream
    \/ EndStream
    \/ StopCurrent
    \/ WriterTurn
    \/ SinkFails

(***************************************************************************)
(* Audio cache (edda/cache.py).  A cache key is a string of letters "a"    *)
(* and of the characters "." and "/"; a payload is a string of bytes.  The *)
(* file system is followed as far as the cache touches it: the WAV files   *)
(* by their resolved location, and the content of metadata.json.           *)
(***************************************************************************)
EmptyMap == [x \in {} |-> x]

RECURSIVE KeysOfLength(_)
KeysOfLength(n) ==
    IF n = 0 THEN { << >> }
    ELSE { Append(k, c) : k \in KeysOfLength(n - 1), c \in {"a", ".", "/"} }

\* the cache_key strings the server can send
CacheKeyStrings == UNION { KeysOfLength(n) : n \in 0..MaxKeyLen }

RECURSIVE PayloadsOfLength(_)
PayloadsOfLength(n) ==
    IF n = 0 THEN { << >> }
    ELSE { Append(d, b) : d \in PayloadsOfLength(n - 1), b \in {0, 1} }

\* the WAV payloads
Payloads == UNION { PayloadsOfLength(n) : n \in 1..MaxPayload }

\* the formats a payload is stored with
SampleRates == {16000, 24000}
ChannelCounts == {1, 2}
DurationsMs == {100}

\* the components of a path string, split at "/"
RECURSIVE Components(_, _, _)
Components(path, i, cur) ==
    IF i > Len(path) THEN << cur >>
    ELSE IF path[i] = "/" THEN << cur >> \o Components(path, i + 1, << >>)
    ELSE Components(path, i + 1, Append(cur, path[i]))

\* the directory the components lead to, from the directory at
\* [root, dirs]: "cache" is cache_dir, "above" a directory above it, "/"
\* the file system's root
RECURSIVE Walk(_, _, _)
Walk(comps, i, at) ==
    IF i > Len(comps) THEN at
    ELSE IF comps[i] \in { << >>, << "." >> } THEN Walk(comps, i + 1, at)
    ELSE IF comps[i] = << ".", "." >>
    THEN Walk(comps, i + 1,
              IF at.dirs # << >>
              THEN [at EXCEPT !.dirs = SubSeq(@, 1, Len(@) - 1)]
              ELSE IF at.root = "cache" THEN [at EXCEPT !.root = "above"]
              ELSE at)
    ELSE Walk(comps, i + 1, [at EXCEPT !.dirs = Append(@, comps[i])])

\* self.cache_dir / f"{cache_key}.wav": the file the path names; a key
\* that begins with "/" makes the path absolute
FilePath(cache_key) ==
    LET comps == Components(cache_key \o << ".wav" >>, 1, << >>)
        start == [root |-> IF cache_key # << >> /\ cache_key[1] = "/" THEN "/" ELSE "cache",
                  dirs |-> << >>]
        dir == Walk(SubSeq(comps, 1, Len(comps) - 1), 1, start)
    IN  [root |-> dir.root, dirs |-> dir.dirs, name |-> comps[Len(comps)]]

\* open(file_path, 'wb') finds the file's directory: cache_dir, the
\* directories above it and the root exist, no other directory does
Openable(loc) == loc.dirs = << >>

\* the metadata entry store writes
Meta(now, audio_data, sample_rate, channels, duration_ms) ==
    [created |-> now, last_accessed |-> now, size_bytes |-> Len(audio_data),
     sample_rate |-> sample_rate, channels |-> channels, duration_ms |-> duration_ms]

\* a dict without one key, a dict with one key set
Without(index, key) == [k \in DOMAIN index \ {key} |-> index[k]]
With(index, key, meta) == [k \in DOMAIN index \cup {key} |-> IF k = key THEN meta ELSE index[k]]

\* metadata.json: json.dump writes the whole index, json.load reads it back;
\* a file that is missing, empty or cut short loads as {}
JsonDump(index) == [kind |-> "valid", index |-> index]
JsonLoad(disk) == IF disk.kind = "valid" THEN disk.index ELSE EmptyMap

\* CacheManager._save_metadata interrupted: open(..., 'w') has truncated the
\* file and json.dump has written none or a part of the new index
Interrupted(point) == [kind |-> point, index |-> EmptyMap]

RECURSIVE TotalSize(_)
TotalSize(index) ==
    IF DOMAIN index = {} THEN 0
    ELSE LET k == CHOOSE k \in DOMAIN index : TRUE
         IN  index[k].size_bytes + TotalSize(Without(index, k))

\* CacheManager._enforce_size_limit: the least recently accessed entries
\* are removed, files unlinked, until the total size fits
RECURSIVE EnforceSizeLimit(_, _)
EnforceSizeLimit(index, fs) ==
    IF max_bytes = 0 \/ TotalSize(index) <= max_bytes
    THEN [index |-> index, fs |-> fs]
    ELSE LET k == CHOOSE k \in DOMAIN index :
                     \A j \in DOMAIN index : index[k].last_accessed <= index[j].last_accessed
         IN  EnforceSizeLimit(Without(index, k), Without(fs, FilePath(k)))

\* CacheManager.store, one call; io_ok: the WAV file could be written
StoreCall(cache_key, audio_data, sample_rate, channels, duration_ms, io_ok) ==
    LET loc == FilePath(cache_key)
        written == With(files, loc, audio_data)
        index == With(metadata, cache_key,
                      Meta(cache_clock + 1, audio_data, sample_rate, channels, duration_ms))
        kept == EnforceSizeLimit(index, written)
    IN  /\ last_path' = Some([key |-> cache_key, loc |-> loc])
        /\ IF Openable(loc) /\ io_ok
           THEN /\ files' = kept.fs
                /\ metadata' = kept.index
                /\ disk_meta' = JsonDump(kept.index)
                /\ fresh' = Some([key |-> cache_key, data |-> audio_data,
                                  sample_rate |-> sample_rate, channels |-> channels,
                                  duration_ms |-> duration_ms])
                /\ cache_clock' = cache_clock + 1
           ELSE UNCHANGED << files, metadata, disk_meta, fresh, cache_clock >>
        /\ stores' = stores + 1

\* CacheManager.store
Store ==
    /\ cache_pc = "ready"
    /\ stores < MaxStores
    /\ cache_clock < MaxCacheClock
    /\ \E cache_key \in CacheKeyStrings, audio_data \in Payloads, sample_rate \in SampleRates,
          channels \in ChannelCounts, duration_ms \in DurationsMs, io_ok \in BOOLEAN :
          StoreCall(cache_key, audio_data, sample_rate, channels, duration_ms, io_ok)
    /\ UNCHANGED << max_bytes, cache_pc >>
    /\ UNCHANGED << detVars, aecVars, playerVars, sessVars, rxVars, streamVars, lateVars >>

\* CacheManager.has: a key outside the index is answered without a path;
\* an entry whose file is missing is dropped and the index is saved
Has ==
    /\ cache_pc = "ready"
    /\ \E cache_key \in CacheKeyStrings :
          IF cache_key \notin DOMAIN metadata
          THEN UNCHANGED << metadata, disk_meta, last_path >>
          ELSE /\ last_path' = Some([key |-> cache_key, loc |-> FilePath(cache_key)])
               /\ IF FilePath(cache_key) \notin DOMAIN files
                  THEN /\ metadata' = Without(metadata, cache_key)
                       /\ disk_meta' = JsonDump(metadata')
                  ELSE UNCHANGED << metadata, disk_meta >>
    /\ UNCHANGED << max_bytes, files, cache_pc, cache_clock, stores, fresh >>
    /\ UNCHANGED << detVars, aecVars, playerVars, sessVars, rxVars, streamVars, lateVars >>

\* what CacheManager.get returns for a key
GetValue(cache_key) ==
    IF cache_key \in DOMAIN metadata /\ FilePath(cache_key) \in DOMAIN files
    THEN Some(files[FilePath(cache_key)])
    ELSE None

\* CacheManager.get: has, then the file is read, last_accessed is set and
\* the index is saved
Get ==
    /\ cache_pc = "ready"
    /\ cache_clock < MaxCacheClock
    /\ \E cache_key \in CacheKeyStrings :
          IF cache_key \notin DOMAIN metadata
          THEN UNCHANGED << metadata, disk_meta, cache_clock, last_path >>
          ELSE /\ last_path' = Some([key |-> cache_key, loc |-> FilePath(cache_key)])
               /\ IF GetValue(cache_key) = None
                  THEN /\ metadata' = Without(metadata, cache_key)
                       /\ disk_meta' = JsonDump(metadata')
                       /\ UNCHANGED cache_clock
                  ELSE /\ metadata' = [metadata EXCEPT ![cache_key].last_accessed = cache_clock + 1]
                       /\ disk_meta' = JsonDump(metadata')
                       /\ cache_clock' = cache_clock + 1
    /\ UNCHANGED << max_bytes, files, cache_pc, stores, fresh >>
    /\ UNCHANGED << detVars, aecVars, playerVars, sessVars, rxVars, streamVars, lateVars >>

\* the process dies inside the _save_metadata of a store: the WAV file is
\* written, metadata.json is cut short
StoreCrashes ==
    /\ cache_pc = "ready"
    /\ stores < MaxStores
    /\ \E cache_key \in CacheKeyStrings, audio_data \in Payloads, point \in {"empty", "partial"} :
          /\ Openable(FilePath(cache_key))
          /\ files' = With(files, FilePath(cache_key), audio_data)
          /\ disk_meta' = Interrupted(point)
          /\ last_path' = Some([key |-> cache_key, loc |-> FilePath(cache_key)])
    /\ stores' = stores + 1
    /\ cache_pc' = "down"
    /\ metadata' = EmptyMap
    /\ UNCHANGED << max_bytes, cache_clock, fresh >>
    /\ UNCHANGED << detVars, aecVars, playerVars, sessVars, rxVars, streamVars, lateVars >>

\* the process dies inside the _save_metadata of a get
GetCrashes ==
    /\ cache_pc = "ready"
    /\ \E cache_key \in DOMAIN metadata, point \in {"empty", "partial"} :
          /\ disk_meta' = Interrupted(point)
          /\ last_path' = Some([key |-> cache_key, loc |-> FilePath(cache_key)])
    /\ cache_pc' = "down"
    /\ metadata' = EmptyMap
    /\ UNCHANGED << max_bytes, files, cache_clock, stores, fresh >>
    /\ UNCHANGED << detVars, aecVars, playerVars, sessVars, rxVars, streamVars, lateVars >>

\* the process ends between two cache operations
Shutdown ==
    /\ cache_pc = "ready"
    /\ cache_pc' = "down"
    /\ metadata' = EmptyMap
    /\ UNCHANGED << max_bytes, files, disk_meta, cache_clock, stores, fresh, last_path >>
    /\ UNCHANGED << detVars, aecVars, playerVars, sessVars, rxVars, streamVars, lateVars >>

\* CacheManager.__init__ in the restarted process, clear policy "never":
\* the index is loaded and the size limit enforced
Restart ==
    /\ cache_pc = "down"
    /\ cache_pc' = "ready"
    /\ LET kept == EnforceSizeLimit(JsonLoad(disk_meta), files)
       IN  /\ metadata' = kept.index
           /\ files' = kept.fs
           /\ disk_meta' = IF kept.index = JsonLoad(disk_meta) THEN disk_meta
                           ELSE JsonDump(kept.index)
    /\ UNCHANGED << max_bytes, cache_clock, stores, fresh, last_path >>
    /\ UNCHANGED << detVars, aecVars, playerVars, sessVars, rxVars, streamVars, lateVars >>

\* CacheManager.__init__ on an empty cache directory
InitCache ==
    /\ max_bytes \in 0..MaxLimit
    /\ files = EmptyMap
    /\ disk_meta = [kind |-> "absent", index |-> EmptyMap]
    /\ metadata = EmptyMap
    /\ cache_pc = "ready"
    /\ cache_clock = 0
    /\ stores = 0
    /\ fresh = None
    /\ last_path = None

\* the cache without a size limit, before its first use
IdleCache ==
    /\ InitCache
    /\ max_bytes = 0

NextCache ==
    \/ Store
    \/ Has
    \/ Get
    \/ StoreCrashes
    \/ GetCrashes
    \/ Shutdown
    \/ Restart

(***************************************************************************)
(* Dispatch of audio_cache_store (client.py receive_messages; the same     *)
(* steps are in MessageHandler._handle_cache_store), with the cache and    *)
(* the player behind it.                                                   *)
(***************************************************************************)
\* CacheManager.has, as a value
HasValue(cache_key) == cache_key \in DOMAIN metadata /\ FilePath(cache_key) \in DOMAIN files

\* the AUDIO_CACHE_STORE branch of receive_messages: a key that has() finds
\* is only logged; any other is stored, playback_event is set and the audio
\* goes to play_wav_async, whatever store returned.  (has() drops an entry
\* whose file is missing; store then writes that entry anew.)
ReceiveCacheStore ==
    /\ cache_pc = "ready"
    /\ busy = None
    /\ Len(procs) < MaxProcs
    /\ stores < MaxStores
    /\ cache_clock < MaxCacheClock
    /\ IF store_msg = None THEN TRUE ELSE store_msg[1].n < MaxMessages
    /\ \E cache_key \in CacheKeyStrings, audio_data \in Payloads, sample_rate \in SampleRates,
          channels \in ChannelCounts, duration_ms \in DurationsMs, io_ok \in BOOLEAN :
          /\ store_msg' = Some([key |-> cache_key, cached |-> HasValue(cache_key),
                                n |-> IF store_msg = None THEN 1 ELSE store_msg[1].n + 1])
          /\ IF HasValue(cache_key)
             THEN /\ last_path' = Some([key |-> cache_key, loc |-> FilePath(cache_key)])
                  /\ UNCHANGED << files, metadata, disk_meta, fresh, cache_clock, stores >>
                  /\ UNCHANGED << procs, stream_proc, stream_kind, current_handle,
                                  playback_event >>
             ELSE /\ StoreCall(cache_key, audio_data, sample_rate, channels, duration_ms, io_ok)
                  /\ playback_event' = TRUE
                  /\ PlayWavAsync
    /\ UNCHANGED << max_bytes, cache_pc >>
    /\ UNCHANGED << pending_response_complete, tts_first_chunk, busy, cache_keys,
                    announced, misrouted, response >>
    /\ UNCHANGED << detVars, aecVars, sessVars, rxVars, streamVars, duckVars, cfgVars, refVars, ttfaVars >>

InitDispatch == store_msg = None

NextCacheStore ==
    \/ ReceiveCacheStore
    \/ HandleResponseComplete

(***************************************************************************)
(* Volume ducking (InputPipeline._process_chunk, AudioPlayer.duck_volume   *)
(* and restore_volume).  A frame is given by its classification is_speech  *)
(* and by is_playing, the playback_active event at the time it is          *)
(* processed.  An amixer call either completes or raises (it timed out):   *)
(* "get_failed" is the reading of the volume raising before anything is    *)
(* set, "set_failed" the setting raising after the command was issued.     *)
(***************************************************************************)
DUCK_TRIGGER_COUNT == 3
RESTORE_SILENCE_COUNT == 5
DefaultVolume == 80

\* what `amixer get Master` reports: a percentage, or nothing that parses
MixerReadings == {0, 75, -1}

\* the trigger count after a frame that is not speech
DecayedTriggers(triggers) == IF triggers > 0 THEN triggers - 1 ELSE 0

\* the guard of duck_volume: nothing is done when the volume is ducked
NeverDucked(ducked) == FALSE
AlreadyDucked(ducked) == ducked

\* AudioPlayer.duck_volume, given what the mixer does: the flag and the
\* remembered volume afterwards, and the command issued
DuckVolume(ducked, normal, reading, mixer) ==
    IF AlreadyDucked(ducked)
    THEN [ducked |-> ducked, normal |-> normal, cmd |-> "none"]
    ELSE IF mixer = "get_failed"
    THEN [ducked |-> ducked, normal |-> normal, cmd |-> "none"]
    ELSE LET read == IF reading >= 0 THEN reading ELSE DefaultVolume
         IN  [ducked |-> mixer = "ok", normal |-> Some(read), cmd |-> "duck"]

\* AudioPlayer.restore_volume
RestoreVolume(ducked, normal, mixer) ==
    IF ~ducked
    THEN [ducked |-> ducked, normal |-> normal, cmd |-> "none"]
    ELSE [ducked |-> mixer # "ok", normal |-> normal, cmd |-> "restore"]

\* the ducking part of InputPipeline._process_chunk for one frame
DuckStep(is_speech, is_playing, reading, mixer) ==
    LET untouched == [ducked |-> volume_ducked, normal |-> normal_volume, cmd |-> "none"]
        triggers == IF ~is_playing THEN 0
                    ELSE IF is_speech THEN consecutive_triggers + 1
                    ELSE DecayedTriggers(consecutive_triggers)
        silence == IF ~is_playing \/ is_speech THEN 0 ELSE consecutive_silence + 1
        vol == IF is_playing
               THEN IF is_speech
                    THEN IF triggers = DUCK_TRIGGER_COUNT
                         THEN DuckVolume(volume_ducked, normal_volume, reading, mixer)
                         ELSE untouched
                    ELSE IF silence = RESTORE_SILENCE_COUNT /\ volume_ducked
                         THEN RestoreVolume(volume_ducked, normal_volume, mixer)
                         ELSE untouched
               ELSE IF (consecutive_triggers > 0 \/ consecutive_silence > 0) /\ volume_ducked
                    THEN RestoreVolume(volume_ducked, normal_volume, mixer)
                    ELSE untouched
    IN  [triggers |-> triggers, silence |-> silence, vol |-> vol]

\* a mixer outcome and a reading are inputs only of the calls that use them
Attempts(is_speech, is_playing) ==
    LET probe == DuckStep(is_speech, is_playing, 75, "set_failed")
    IN  IF probe.vol.cmd = "duck" THEN "duck"
        ELSE IF probe.vol.cmd = "restore" THEN "restore"
        ELSE "none"

ProcessChunkDucking ==
    /\ Len(duck_hist) < MaxDuckFrames
    /\ \E is_speech \in BOOLEAN, is_playing \in BOOLEAN, reading \in MixerReadings,
          mixer \in {"ok", "get_failed", "set_failed"} :
          /\ Attempts(is_speech, is_playing) = "none" => (reading = 75 /\ mixer = "ok")
          /\ Attempts(is_speech, is_playing) = "restore" =>
                (reading = 75 /\ mixer # "get_failed")
          /\ mixer = "get_failed" => reading = 75
          /\ LET r == DuckStep(is_speech, is_playing, reading, mixer)
             IN  /\ consecutive_triggers' = r.triggers
                 /\ consecutive_silence' = r.silence
                 /\ volume_ducked' = r.vol.ducked
                 /\ normal_volume' = r.vol.normal
                 /\ duck_hist' = Append(duck_hist,
                        [speech |-> is_speech, playing |-> is_playing, cmd |-> r.vol.cmd,
                         raised |-> mixer # "ok", was_ducked |-> volume_ducked])
    /\ UNCHANGED << detVars, aecVars, playerVars, sessVars, rxVars, streamVars, cacheVars,
                    dispatchVars, cfgVars, refVars, ttfaVars >>

InitDucking ==
    /\ consecutive_triggers = 0
    /\ consecutive_silence = 0
    /\ volume_ducked = FALSE
    /\ normal_volume = None
    /\ duck_hist = << >>

NextDucking == ProcessChunkDucking

(***************************************************************************)
(* The detector's thresholds (client.py main, SpeechConfig).  Durations    *)
(* are whole milliseconds; the program divides floats and truncates, which *)
(* for every configuration explored here is the floor of the exact         *)
(* quotient.                                                               *)
(***************************************************************************)
ChunkSizes == {480, 1440}
CaptureRates == {16000, 48000}
TargetRates == {8000, 16000}
PreBufferMs == {20, 100, 300, 350}
SilenceDurationMs == {500, 900}

Max(a, b) == IF a >= b THEN a ELSE b

\* int(duration_ms / chunk_duration_ms), with chunk_duration_ms =
\* (chunk_size / sample_rate) * 1000
ChunksIn(duration_ms, chunk_size, sample_rate) ==
    (duration_ms * sample_rate) \div (chunk_size * 1000)

\* SpeechConfig.pre_buffer_chunks and max_silence_chunks of the config
\* from_audio_config returns
FromAudioConfig(chunk_size, sample_rate, pre_buffer_ms, silence_duration_ms) ==
    [pre_buffer_chunks |-> Max(1, ChunksIn(pre_buffer_ms, chunk_size, sample_rate)),
     max_silence_chunks |-> Max(1, ChunksIn(silence_duration_ms, chunk_size, sample_rate))]

\* main reads the audio and the vad sections of the configuration
BuildAudioConfig ==
    /\ audio_config = None
    /\ \E capture_rate \in CaptureRates, target_rate \in TargetRates, chunk_size \in ChunkSizes,
          pre_buffer_ms \in PreBufferMs, silence_duration_ms \in SilenceDurationMs :
          /\ audio_config' = Some([capture_rate |-> capture_rate, target_rate |-> target_rate,
                                   chunk_size |-> chunk_size])
          /\ vad_cfg' = Some([pre_buffer_ms |-> pre_buffer_ms,
                              silence_duration_ms |-> silence_duration_ms])
    /\ UNCHANGED << detVars, aecVars, playerVars, sessVars, rxVars, streamVars, cacheVars,
                    dispatchVars, duckVars, refVars, ttfaVars >>

\* main builds the speech config, with the target rate as sample_rate, and
\* the detector from it
BuildSpeechDetector ==
    /\ audio_config # None
    /\ pre_buffer_chunks = 0
    /\ LET config == FromAudioConfig(audio_config[1].chunk_size, audio_config[1].target_rate,
                                     vad_cfg[1].pre_buffer_ms, vad_cfg[1].silence_duration_ms)
       IN  /\ pre_buffer_chunks' = config.pre_buffer_chunks
           /\ max_silence_chunks' = config.max_silence_chunks
    /\ UNCHANGED << pre_buffer, is_speaking, silence_chunks, chunks_sent, speech_start_time,
                    last_speech_end_time, wire, hist, log >>
    /\ UNCHANGED << aecVars, playerVars, sessVars, rxVars, streamVars, cacheVars,
                    dispatchVars, duckVars, cfgVars, refVars, ttfaVars >>

\* before main has read the configuration
InitConfig ==
    /\ audio_config = None
    /\ vad_cfg = None

\* the detector's state before main has built it
Unbuilt ==
    /\ pre_buffer_chunks = 0
    /\ max_silence_chunks = 0
    /\ pre_buffer = << >>
    /\ is_speaking = FALSE
    /\ silence_chunks = 0
    /\ chunks_sent = 0
    /\ speech_start_time = None
    /\ last_speech_end_time = None
    /\ wire = << >>
    /\ hist = << >>
    /\ log = << >>

NextConfig ==
    \/ BuildAudioConfig
    \/ BuildSpeechDetector

(***************************************************************************)
(* The player with an echo canceller (AudioPlayer(echo_canceller=aec)).    *)
(* The dispatcher calls start_stream, write_stream, end_stream,            *)
(* stop_current and play_wav_async on the event loop, one after the other; *)
(* it runs play_wav in a worker thread and waits for it, so play_wav is    *)
(* followed step by step while the capture path and the threads of earlier *)
(* playbacks go on.  Each ReferenceBuffer method is one step under the     *)
(* buffer's lock.  Of the ring only the playbacks its samples came from    *)
(* are kept, of playback_start_time only the playback that set it.         *)
(***************************************************************************)
NewPlayback(kind) ==
    [kind |-> kind, sink |-> IF kind = "wav" THEN "unspawned" ELSE "rendering",
     thread |-> IF kind = "wav" THEN "none" ELSE "running", fed |-> kind # "stream",
     ended |-> FALSE, chunks |-> 0]

\* _reap_stream_locked: the stream fields after it
ReapedStream ==
    IF rp_stream # None /\ pbs[rp_stream[1]].thread = "exited" THEN None ELSE rp_stream

\* stop_current: the stream that the reap left and the handle's process
\* are killed
StoppedPlaybacks ==
    [i \in DOMAIN pbs |->
        IF ReapedStream = Some(i) THEN [pbs[i] EXCEPT !.sink = "over", !.ended = TRUE]
        ELSE IF rp_handle = Some(i) THEN [pbs[i] EXCEPT !.sink = "over"]
        ELSE pbs[i]]

\* the history of a stream just started
NewLatch == [clears |-> 0, starts |-> 0, dropped |-> FALSE]

\* playback_start_time is set to None by a call that is not the current
\* stream's own end_stream or stop_current
Dropped ==
    IF rp_stream # None /\ time_of = rp_stream THEN [latch EXCEPT !.dropped = TRUE] ELSE latch

\* AudioPlayer.start_stream: stop_current (with end_playback), then the
\* sink and its writer thread
RefStartStream ==
    /\ wav_pc = "idle"
    /\ Len(pbs) < MaxPlaybacks
    /\ pbs' = Append(StoppedPlaybacks, NewPlayback("stream"))
    /\ rp_stream' = Some(Len(pbs) + 1)
    /\ rp_first_chunk' = TRUE
    /\ rp_handle' = None
    /\ time_of' = None
    /\ latch' = NewLatch
    /\ UNCHANGED << wav_pc, ring_of >>
    /\ UNCHANGED << detVars, aecVars, playerVars, sessVars, rxVars, streamVars, cacheVars,
                    dispatchVars, duckVars, cfgVars, ttfaVars >>

\* AudioPlayer.write_stream with a chunk that is not empty:
\* register_playback(chunk, rate, auto_start=True, is_first_chunk), then
\* the chunk is queued
RefWriteStream ==
    /\ wav_pc = "idle"
    /\ rp_stream # None
    /\ pbs[rp_stream[1]].chunks < MaxRefChunks
    /\ ring_of' = IF rp_first_chunk THEN {rp_stream[1]} ELSE ring_of \cup {rp_stream[1]}
    /\ time_of' = IF time_of = None THEN rp_stream ELSE time_of
    /\ latch' = [latch EXCEPT !.clears = IF rp_first_chunk THEN @ + 1 ELSE @,
                               !.starts = IF time_of = None THEN @ + 1 ELSE @]
    /\ rp_first_chunk' = FALSE
    /\ pbs' = [pbs EXCEPT ![rp_stream[1]].fed = TRUE, ![rp_stream[1]].chunks = @ + 1]
    /\ UNCHANGED << rp_stream, rp_handle, wav_pc >>
    /\ UNCHANGED << detVars, aecVars, playerVars, sessVars, rxVars, streamVars, cacheVars,
                    dispatchVars, duckVars, cfgVars, ttfaVars >>

\* AudioPlayer.end_stream: the sentinel, the reap, end_playback
RefEndStream ==
    /\ wav_pc = "idle"
    /\ pbs' = IF rp_stream = None THEN pbs ELSE [pbs EXCEPT ![rp_stream[1]].ended = TRUE]
    /\ rp_stream' = ReapedStream
    /\ time_of' = None
    /\ UNCHANGED << rp_first_chunk, rp_handle, wav_pc, ring_of, latch >>
    /\ UNCHANGED << detVars, aecVars, playerVars, sessVars, rxVars, streamVars, cacheVars,
                    dispatchVars, duckVars, cfgVars, ttfaVars >>

\* AudioPlayer.stop_current
RefStopCurrent ==
    /\ wav_pc = "idle"
    /\ pbs' = StoppedPlaybacks
    /\ rp_stream' = None
    /\ rp_handle' = None
    /\ time_of' = None
    /\ UNCHANGED << rp_first_chunk, wav_pc, ring_of, latch >>
    /\ UNCHANGED << detVars, aecVars, playerVars, sessVars, rxVars, streamVars, cacheVars,
                    dispatchVars, duckVars, cfgVars, ttfaVars >>

\* AudioPlayer.play_wav_async: stop_current, _register_wav_with_aec, the
\* sink, start_playback, the play thread
RefPlayWavAsync ==
    /\ wav_pc = "idle"
    /\ Len(pbs) < MaxPlaybacks
    /\ pbs' = Append(StoppedPlaybacks, NewPlayback("async"))
    /\ rp_stream' = None
    /\ rp_handle' = Some(Len(pbs) + 1)
    /\ ring_of' = {Len(pbs) + 1}
    /\ time_of' = Some(Len(pbs) + 1)
    /\ UNCHANGED << rp_first_chunk, wav_pc, latch >>
    /\ UNCHANGED << detVars, aecVars, playerVars, sessVars, rxVars, streamVars, cacheVars,
                    dispatchVars, duckVars, cfgVars, ttfaVars >>

\* AudioPlayer.play_wav in its worker thread, first step:
\* _register_wav_with_aec clears the ring and writes the file's samples;
\* nothing is stopped and playback_start_time is left as it is
RefPlayWavRegister ==
    /\ wav_pc = "idle"
    /\ Len(pbs) < MaxPlaybacks
    /\ pbs' = Append(pbs, NewPlayback("wav"))
    /\ ring_of' = {Len(pbs) + 1}
    /\ wav_pc' = "registered"
    /\ UNCHANGED << rp_stream, rp_first_chunk, rp_handle, time_of, latch >>
    /\ UNCHANGED << detVars, aecVars, playerVars, sessVars, rxVars, streamVars, cacheVars,
                    dispatchVars, duckVars, cfgVars, ttfaVars >>

\* play_wav, second step: the sink is spawned and start_playback called
RefPlayWavSpawn ==
    /\ wav_pc = "registered"
    /\ pbs' = [pbs EXCEPT ![Len(pbs)].sink = "rendering"]
    /\ time_of' = Some(Len(pbs))
    /\ latch' = Dropped
    /\ wav_pc' = "playing"
    /\ UNCHANGED << rp_stream, rp_first_chunk, rp_handle, ring_of >>
    /\ UNCHANGED << detVars, aecVars, playerVars, sessVars, rxVars, streamVars, cacheVars,
                    dispatchVars, duckVars, cfgVars, ttfaVars >>

\* play_wav, last step: communicate returns (the sink has finished or was
\* killed at the timeout) and the finally clause calls end_playback
RefPlayWavReturn ==
    /\ wav_pc = "playing"
    /\ pbs' = [pbs EXCEPT ![Len(pbs)].sink = "over"]
    /\ time_of' = None
    /\ latch' = Dropped
    /\ wav_pc' = "idle"
    /\ UNCHANGED << rp_stream, rp_first_chunk, rp_handle, ring_of >>
    /\ UNCHANGED << detVars, aecVars, playerVars, sessVars, rxVars, streamVars, cacheVars,
                    dispatchVars, duckVars, cfgVars, ttfaVars >>

\* the sink of a stream or of an asynchronous playback exits: its input
\* is used up, or it failed
RefSinkOver ==
    /\ \E i \in DOMAIN pbs :
          /\ pbs[i].kind \in {"stream", "async"}
          /\ pbs[i].sink = "rendering"
          /\ pbs' = [pbs EXCEPT ![i].sink = "over"]
    /\ UNCHANGED << rp_stream, rp_first_chunk, rp_handle, wav_pc, ring_of, time_of, latch >>
    /\ UNCHANGED << detVars, aecVars, playerVars, sessVars, rxVars, streamVars, cacheVars,
                    dispatchVars, duckVars, cfgVars, ttfaVars >>

\* play_wav_async._play_thread ends: communicate has returned because the
\* sink is over, and the finally clause calls end_playback
RefPlayThreadEnds ==
    /\ \E i \in DOMAIN pbs :
          /\ pbs[i].kind = "async"
          /\ pbs[i].sink = "over"
          /\ pbs[i].thread = "running"
          /\ pbs' = [pbs EXCEPT ![i].thread = "exited"]
    /\ time_of' = None
    /\ latch' = Dropped
    /\ UNCHANGED << rp_stream, rp_first_chunk, rp_handle, wav_pc, ring_of >>
    /\ UNCHANGED << detVars, aecVars, playerVars, sessVars, rxVars, streamVars, cacheVars,
                    dispatchVars, duckVars, cfgVars, ttfaVars >>

\* start_stream._writer ends: it took the sentinel, or the sink is gone
RefWriterEnds ==
    /\ \E i \in DOMAIN pbs :
          /\ pbs[i].kind = "stream"
          /\ pbs[i].thread = "running"
          /\ pbs[i].ended \/ pbs[i].sink = "over"
          /\ pbs' = [pbs EXCEPT ![i].thread = "exited"]
    /\ UNCHANGED << rp_stream, rp_first_chunk, rp_handle, wav_pc, ring_of, time_of, latch >>
    /\ UNCHANGED << detVars, aecVars, playerVars, sessVars, rxVars, streamVars, cacheVars,
                    dispatchVars, duckVars, cfgVars, ttfaVars >>

\* AudioPlayer.__init__ and the ReferenceBuffer of its echo canceller
InitReference ==
    /\ pbs = << >>
    /\ rp_stream = None
    /\ rp_first_chunk = TRUE
    /\ rp_handle = None
    /\ wav_pc = "idle"
    /\ ring_of = {}
    /\ time_of = None
    /\ latch = NewLatch

NextReference ==
    \/ RefStartStream
    \/ RefWriteStream
    \/ RefEndStream
    \/ RefStopCurrent
    \/ RefPlayWavAsync
    \/ RefPlayWavRegister
    \/ RefPlayWavSpawn
    \/ RefPlayWavReturn
    \/ RefSinkOver
    \/ RefPlayThreadEnds
    \/ RefWriterEnds

(***************************************************************************)
(* The time-to-first-audio marker.  The same server messages are handled   *)
(* by MessageHandler and by client.receive_messages, each with its own     *)
(* detector; both detectors see the same utterances end.  A chunk belongs  *)
(* to the stream announced last; sentences and legacy chunks of a response *)
(* are numbered from 1.                                                    *)
(***************************************************************************)
\* MessageHandler._log_ttfa / the inline code of receive_messages: the
\* marker after it
Logged(marker) == FALSE

\* MessageHandler._handle_stream_chunk, lines 106-109
HandlerChunk(first, marker, stream) ==
    IF first /\ stream = "tts"
    THEN [first |-> FALSE, marker |-> Logged(marker), cleared |-> marker]
    ELSE [first |-> first, marker |-> marker, cleared |-> FALSE]

\* receive_messages, client.py lines 81-88
ClientChunk(first, marker, stream) ==
    IF first /\ marker
    THEN IF stream = "tts"
         THEN [first |-> FALSE, marker |-> Logged(marker), cleared |-> TRUE]
         ELSE [first |-> first, marker |-> marker, cleared |-> FALSE]
    ELSE [first |-> first, marker |-> marker, cleared |-> FALSE]

\* the ledger of a response after one more message
Counted(field, mh, cl) ==
    [tt_resp EXCEPT ![field] = @ + 1, !.msgs = @ + 1,
                    !.mh = @ + (IF mh THEN 1 ELSE 0),
                    !.cl = @ + (IF cl THEN 1 ELSE 0)]

NewResponse == [stream |-> "none", chunks |-> 0, sentences |-> 0, legacy |-> 0,
                prompts |-> 0, msgs |-> 0, mh |-> 0, cl |-> 0]

NoMessage == [audio |-> FALSE, first_audio |-> FALSE, mh |-> FALSE, cl |-> FALSE]

ttfaRest == << detVars, aecVars, playerVars, sessVars, rxVars, streamVars, cacheVars,
               dispatchVars, duckVars, cfgVars, refVars >>

\* SpeechDetector._process_speaking reports ENDED: last_speech_end_time is set
TtfaSpeechEnds ==
    /\ ~(mh_marker /\ cl_marker)
    /\ mh_marker' = TRUE
    /\ cl_marker' = TRUE
    /\ UNCHANGED << mh_first, cl_first, tt_resp, tt_last >>
    /\ UNCHANGED ttfaRest

\* AudioStreamStart in both dispatchers
TtfaStreamStart ==
    /\ tt_resp.msgs < MaxResponseMessages
    /\ \E stream \in StreamKinds :
          /\ mh_first' = IF stream = "tts" THEN TRUE ELSE mh_first
          /\ cl_first' = IF stream = "tts" THEN TRUE ELSE cl_first
          /\ tt_resp' = [tt_resp EXCEPT !.stream = stream, !.chunks = 0, !.msgs = @ + 1]
    /\ tt_last' = NoMessage
    /\ UNCHANGED << mh_marker, cl_marker >>
    /\ UNCHANGED ttfaRest

\* AudioStreamChunk of the stream announced last, in both dispatchers
TtfaStreamChunk ==
    /\ tt_resp.msgs < MaxResponseMessages
    /\ tt_resp.stream # "none"
    /\ LET mh == HandlerChunk(mh_first, mh_marker, tt_resp.stream)
           cl == ClientChunk(cl_first, cl_marker, tt_resp.stream)
           first_audio == tt_resp.stream = "tts" /\ tt_resp.chunks = 0
       IN  /\ mh_first' = mh.first
           /\ mh_marker' = mh.marker
           /\ cl_first' = cl.first
           /\ cl_marker' = cl.marker
           /\ tt_resp' = Counted("chunks", mh.cleared, cl.cleared)
           /\ tt_last' = [audio |-> TRUE, first_audio |-> first_audio,
                          mh |-> mh.cleared, cl |-> cl.cleared]
    /\ UNCHANGED ttfaRest

\* AudioSentence (field sentences) or legacy AudioPlayback (field legacy)
\* with the next index, in both dispatchers: the first one logs
Numbered(field) ==
    /\ tt_resp[field] < MaxSentences
    /\ LET first_audio == tt_resp[field] = 0
       IN  /\ mh_marker' = IF first_audio THEN Logged(mh_marker) ELSE mh_marker
           /\ cl_marker' = IF first_audio /\ cl_marker THEN Logged(cl_marker) ELSE cl_marker
           /\ tt_resp' = Counted(field, first_audio /\ mh_marker, first_audio /\ cl_marker)
           /\ tt_last' = [audio |-> TRUE, first_audio |-> first_audio,
                          mh |-> first_audio /\ mh_marker, cl |-> first_audio /\ cl_marker]
    /\ UNCHANGED << mh_first, cl_first >>
    /\ UNCHANGED ttfaRest

\* AudioSentence: _handle_sentence, client.py lines 105-117
TtfaSentence ==
    /\ tt_resp.msgs < MaxResponseMessages
    /\ Numbered("sentences")

\* AudioPlayback: _handle_playback, client.py lines 154-164
TtfaPlayback ==
    /\ tt_resp.msgs < MaxResponseMessages
    /\ Numbered("legacy")

\* AudioLoading, AudioCachePlay, AudioCacheStore in both dispatchers: a
\* prompt is played and the marker is not looked at
TtfaPrompt ==
    /\ tt_resp.msgs < MaxResponseMessages
    /\ tt_resp' = Counted("prompts", FALSE, FALSE)
    /\ tt_last' = [NoMessage EXCEPT !.audio = TRUE]
    /\ UNCHANGED << mh_marker, mh_first, cl_marker, cl_first >>
    /\ UNCHANGED ttfaRest

\* ResponseComplete in both dispatchers: the next message belongs to the
\* next response
TtfaResponseComplete ==
    /\ tt_resp.msgs > 0
    /\ tt_resp' = NewResponse
    /\ tt_last' = NoMessage
    /\ UNCHANGED << mh_marker, mh_first, cl_marker, cl_first >>
    /\ UNCHANGED ttfaRest

\* MessageHandler.__init__, the first lines of receive_messages and
\* SpeechDetector.__init__
InitTtfa ==
    /\ mh_marker = FALSE
    /\ mh_first = TRUE
    /\ cl_marker = FALSE
    /\ cl_first = TRUE
    /\ tt_resp = NewResponse
    /\ tt_last = NoMessage

NextTtfa ==
    \/ TtfaSpeechEnds
    \/ TtfaStreamStart
    \/ TtfaStreamChunk
    \/ TtfaSentence
    \/ TtfaPlayback
    \/ TtfaPrompt
    \/ TtfaResponseComplete

\* the parts that follow the cache, idle
IdleLate == InitDispatch /\ InitDucking /\ InitConfig /\ InitReference /\ InitTtfa

\* the parts added after the player, idle
IdleRest == InitReceive /\ InitStream /\ IdleCache /\ IdleLate

vars == << detVars, aecVars, playerVars, restVars >>

(***************************************************************************)
(* Properties of the echo canceller.                                       *)
(***************************************************************************)

\* a cancel_echo call has returned
Returned == ce_pc = "idle" /\ ce_result # None

\* C6 AEC pass-through when inactive: the start time is null exactly when
\* playback was never started or was ended (end_playback, clear), and a
\* cancel_echo call entered while the engine is not initialised or the start
\* time is null returns its input unchanged and makes no engine call,
\* whatever has been registered in the reference buffer.
C6_InactivePassThrough ==
    /\ (playback_start_time = None) <=> (timing # "started")
    /\ (ce_pc = "frames") => (ce_gate.initialized /\ ce_gate.started)
    /\ (Returned /\ (~ce_gate.initialized \/ ~ce_gate.started)) =>
          /\ ce_result = Some(ce_mic)
          /\ ce_calls = 0
          /\ ce_frames = {}

\* a call with a full mic buffer returned while playback had been ended with
\* samples still registered, on an initialised engine
C6_Witness ==
    /\ Returned
    /\ ce_gate.initialized
    /\ ~ce_gate.started
    /\ timing = "ended"
    /\ total_written > 0
    /\ Len(ce_mic) = MaxMic
    /\ ce_result = Some(ce_mic)

\* C7 reference exhaustion pass-through: every frame that cancel_echo handled
\* while playback was timed and the playback position (playback_start_sample
\* + elapsed samples - delay_samples) was at or beyond total_written got no
\* reference from read_for_time, made no engine call and left the frame as
\* it was.
C7_ExhaustedPassThrough ==
    \A f \in ce_frames :
        (f.timed /\ f.exhausted) =>
            (~f.has_ref /\ ~f.engine_called /\ f.unchanged)

\* a call that ran past the end of registered content: one frame was
\* cancelled against the reference and a later one found it exhausted
C7_Witness ==
    /\ Returned
    /\ \E f \in ce_frames : f.timed /\ f.exhausted /\ f.nonempty /\ f.unchanged
    /\ \E f \in ce_frames : f.engine_called /\ ~f.unchanged

\* the ring read in order from write_pos
RingInOrder == [j \in 1..RingCapacity |-> rb_samples[(write_pos + j - 1) % RingCapacity]]

\* C8 ring-buffer wrap: once capacity + k samples (k >= 0) have been passed
\* to write since the ring was cleared, in writes of any sizes, the ring read
\* in order from write_pos is the last capacity samples written, write_pos is
\* total_written mod capacity and total_written is capacity + k.
C8_RingHoldsLastCapacity ==
    registered >= RingCapacity =>
        /\ total_written = registered
        /\ write_pos = total_written % RingCapacity
        /\ RingInOrder = [j \in 1..RingCapacity |-> registered - RingCapacity + j]

\* the detector as client.py configures it by default, before any frame
IdleDetector ==
    /\ InitDetector
    /\ pre_buffer_chunks = MaxPreRoll
    /\ max_silence_chunks = MaxSilence

\* the capture path: SpeechDetector under every frame sequence
InitCapture == InitDetector /\ InitAec /\ InitPlayer /\ InSession /\ IdleRest

SpecDetector == InitCapture /\ [][NextDetector]_vars

\* the echo canceller under every order of its callers' calls
InitCanceller == IdleDetector /\ InitAec /\ InitPlayer /\ InSession /\ IdleRest

SpecAec == InitCanceller /\ [][NextAec]_vars

(***************************************************************************)
(* Properties of the player and the dispatcher.                            *)
(***************************************************************************)

\* the sinks that are rendering
RenderingSinks == {p \in DOMAIN procs : Rendering(procs[p])}

\* C4 preemption correctness: once AudioStreamStart(B) is handled, the sink
\* of every earlier stream is terminated, so the only stream sink that may
\* render is that of the stream announced last; a chunk is only ever queued
\* for, and written to, the sink of the stream it belongs to.
C4_Preemption ==
    /\ \A p \in RenderingSinks : procs[p].kind = "stream" => announced = Some(p)
    /\ \A p \in DOMAIN procs : \A i \in 1..Len(procs[p].q) : procs[p].q[i] # FOREIGN
    /\ ~misrouted

\* C5 at most one playback is active: in every reachable state at most one
\* sink process started by the player is alive and rendering.
C5_AtMostOnePlayback == Cardinality(RenderingSinks) <= 1

\* C9 playback gating on sentences: when the final sentence of a response
\* has finished playing, playback_active is cleared if and only if the
\* ResponseComplete of that same response was handled before.
C9_SentenceGating ==
    [][(busy # None /\ busy' = None /\ busy[1].final) =>
          ((playback_event /\ ~playback_event') <=> response.rc)]_vars

\* every playback that was started is over and neither the dispatcher nor
\* any thread or sink has a step left to take
PlaybackEnded ==
    /\ procs # << >>
    /\ busy = None
    /\ \A p \in DOMAIN procs : procs[p] = Gone

\* C10 playback_active is cleared when playback fully ends: once every
\* playback has ended and nothing but a further server message can happen,
\* playback_active is clear and the capture loop is not paused.
C10_ClearedWhenPlaybackEnds == PlaybackEnded => ~CapturePaused

InitPlayback == IdleDetector /\ InitAec /\ InitPlayer /\ InSession /\ IdleRest

\* the dispatcher, the player and their threads and sinks under every
\* message sequence
SpecPlayer == InitPlayback /\ [][NextPlayer]_vars

(***************************************************************************)
(* Properties of the session coordinator.                                  *)
(***************************************************************************)
\* the client from process start, under every order of its tasks' steps
InitClient == IdleDetector /\ InitAec /\ InitPlayer /\ InitSession /\ IdleRest

SpecSession == InitClient /\ [][NextSession]_vars

\* C11: capture pause without AEC -- in every interleaving of the capture
\* task and the receive task, no frame is fed to the detector and no
\* audio_chunk or end_speech is sent while playback_active is set, a frame
\* whose read was in flight when the event was set included
C11_NoCaptureWhilePlayback ==
    [][(Len(hist') > Len(hist) \/ Len(wire') > Len(wire)) => ~playback_event]_vars

\* the detector as SpeechDetector.__init__ leaves it
DetectorFresh ==
    /\ ~is_speaking
    /\ pre_buffer = << >>
    /\ silence_chunks = 0
    /\ chunks_sent = 0
    /\ speech_start_time = None
    /\ last_speech_end_time = None

\* C12: reconnect idempotence -- however a session ended (connection closed,
\* refused, OS error, generic exception, clean close of the receive loop,
\* capture cancelled in the middle of an utterance), the detector is as
\* freshly constructed during the reconnect delay and when the next session
\* connects
C12_ReconnectIdempotence ==
    main_pc \in {"sleep", "connect"} => DetectorFresh

\* a second session is about to start after the receive loop closed cleanly
\* and the capture task was cancelled in the middle of an utterance
C12_Witness ==
    /\ main_pc = "connect"
    /\ last_end # None
    /\ last_end[1].cause = "none"
    /\ last_end[1].capture_cancelled
    /\ last_end[1].mid_utterance

\* C13: AudioStall is fatal -- once the capture task has raised
\* AudioStallError the process exits with a non-zero status and never sleeps
\* and reconnects, whatever the receive task did in the same scheduling step
C13_StallIsFatal ==
    cap_pc = AudioStallError =>
        \/ main_pc = "session"
        \/ main_pc = "exited" /\ exit_cause = KeyboardInterrupt
        \/ main_pc = "exited" /\ exit_status # None /\ exit_status[1] # 0

\* C14: device open failure is fatal -- when opening the input stream fails
\* at the start of a session the process exits rather than sleeping for the
\* reconnect delay and retrying
C14_OpenFailureIsFatal ==
    cap_pc \in {OSError, RuntimeError} =>
        \/ main_pc = "session"
        \/ main_pc = "exited"

\* C15: exit status -- the process terminates with a non-zero status for
\* each unrecoverable startup failure (config, VAD model, input device) and
\* with 0 only on graceful shutdown
C15_ExitStatus ==
    main_pc = "exited" =>
        /\ exit_cause \in {"config", "vad", "device"} => exit_status[1] # 0
        /\ exit_status[1] = 0 => exit_cause = KeyboardInterrupt

(***************************************************************************)
(* Properties of the receive loop.                                         *)
(***************************************************************************)
\* the receive loop of a running session under every raw message
InitReceiving == IdleDetector /\ InitAec /\ InitPlayer /\ InSession /\ IdleRest

SpecReceive == InitReceiving /\ [][NextReceive]_vars

\* RFC 4648 base64: only letters of the alphabet, whole quads, at most two
\* pad characters and only at the end
ValidBase64(text) ==
    /\ Len(text) % 4 = 0
    /\ \A i \in 1..Len(text) : text[i] # "!"
    /\ \A i \in 1..Len(text) : text[i] = "=" => (i > Len(text) - 2 /\ i > 1
                                                 /\ \A j \in i..Len(text) : text[j] = "=")

\* a raw message that is not valid JSON, not an object, of unknown type
\* (status included), without its data field, or with a field that cannot be
\* decoded (data that is no base64 text, a numeric field that is no number)
Malformed(raw) ==
    \/ raw.json # "object"
    \/ raw.type \notin MessageTypes
    \/ NeedsData(raw.type) /\ raw.data.kind = "absent"
    \/ NeedsData(raw.type) /\ raw.data.kind = "nonstring"
    \/ NeedsData(raw.type) /\ raw.data.kind = "text" /\ ~ValidBase64(raw.data.text)
    \/ ConvertsNumbers(raw.type) /\ raw.num = "text"

\* C16: malformed or unknown server messages never end the session -- every
\* raw message that is not valid JSON, not an object, of unknown type, lacks
\* a required field or has an undecodable field is skipped: no handler runs
\* for it and the receive task goes on to the next message
C16_MalformedSkipped ==
    (rx_raw # None /\ Malformed(rx_raw[1])) =>
        (rx_msg = None /\ rx_pc = "idle" /\ ~rx_handled /\ recv_pc = "running")

(***************************************************************************)
(* Properties of one stream's chunks.                                      *)
(***************************************************************************)
\* a stream under every order of the dispatcher's calls, the writer's turns
\* and the sink's exit
InitStreaming == IdleDetector /\ InitAec /\ InitPlayer /\ InSession /\ IdleRest

SpecStream == InitStreaming /\ [][NextStream]_vars

\* the chunks that will never reach the sink: the writer is done, or the
\* chunk is neither written nor queued
Missing ==
    { c \in 1..sw_passed :
        /\ \A i \in 1..Len(sw_stdin) : sw_stdin[i] # c
        /\ sw_thread = "done" \/ \A i \in 1..Len(sw_q) : sw_q[i] # c }

\* stdin holds chunks passed to write_stream, in the order they were passed
InOrder ==
    /\ \A i \in 1..Len(sw_stdin) : sw_stdin[i] \in 1..sw_passed
    /\ \A i, j \in 1..Len(sw_stdin) : i < j => sw_stdin[i] < sw_stdin[j]

\* the original statement: a chunk is missing only if its enqueue timed out
\* (write_stream returned failure) or the stream was stopped
C17_AsClaimed ==
    /\ InOrder
    /\ \A c \in Missing : ~sw_returned[c] \/ sw_stopped

\* C17: stream chunk ordering -- the chunks written to the sink's stdin are
\* an order-preserving subsequence of the chunks passed to write_stream; a
\* chunk is missing only if its enqueue timed out (write_stream returned
\* failure), the stream was stopped, the sink exited on its own, or the
\* chunk was passed after end_stream had queued the sentinel
C17_ChunkOrdering ==
    /\ InOrder
    /\ \A c \in Missing :
          \/ ~sw_returned[c]
          \/ sw_stopped
          \/ sw_sink = "exited"
          \/ sw_ended_at # None /\ c > sw_ended_at[1]

\* chunks were written in order around a chunk dropped by a timed-out
\* enqueue, and the stream ended by its sentinel
C17_Witness ==
    /\ sw_thread = "done"
    /\ sw_sink = "alive"
    /\ ~sw_stopped
    /\ Len(sw_stdin) >= 2
    /\ \E c \in 1..sw_passed : ~sw_returned[c] /\ c < sw_stdin[Len(sw_stdin)]

(***************************************************************************)
(* Properties of the audio cache.                                          *)
(***************************************************************************)
\* the cache under every order of stores, lookups, crashes and restarts
InitCaching ==
    IdleDetector /\ InitAec /\ InitPlayer /\ InSession /\ InitReceive /\ InitStream /\ InitCache
    /\ IdleLate

SpecCache == InitCaching /\ [][NextCache]_vars

\* C18: cache round-trip -- after store has returned success, get returns
\* exactly the stored bytes and get_info the stored sample_rate, channels,
\* duration_ms and size, in the same process and after a restart that
\* reloads metadata.json
C18_RoundTrip ==
    (cache_pc = "ready" /\ fresh # None) =>
        LET f == fresh[1]
        IN  /\ GetValue(f.key) = Some(f.data)
            /\ f.key \in DOMAIN metadata
            /\ metadata[f.key].sample_rate = f.sample_rate
            /\ metadata[f.key].channels = f.channels
            /\ metadata[f.key].duration_ms = f.duration_ms
            /\ metadata[f.key].size_bytes = Len(f.data)

\* the key with every character outside [A-Za-z0-9_-] removed
Sanitized(cache_key) == SelectSeq(cache_key, LAMBDA c : c = "a")

\* C19: cache key sanitisation -- the file has, get and store use for a key
\* is <cache_dir>/<k>.wav, k being the key without the characters outside
\* [A-Za-z0-9_-], so no file outside cache_dir is read or written
C19_KeySanitised ==
    last_path # None =>
        last_path[1].loc = [root |-> "cache", dirs |-> << >>,
                            name |-> Sanitized(last_path[1].key) \o << ".wav" >>]

\* C20: atomic metadata rewrite -- whenever the process is down, crashed
\* in a save or not, metadata.json is a complete version of the index (or
\* was never written)
C20_AtomicRewrite ==
    cache_pc = "down" => disk_meta.kind \in {"valid", "absent"}

(***************************************************************************)
(* Properties of the cache-store dispatch.                                 *)
(***************************************************************************)
InitCacheStore ==
    IdleDetector /\ InitAec /\ InitPlayer /\ InSession /\ InitReceive /\ InitStream /\ InitCache
    /\ InitDispatch /\ InitDucking /\ InitConfig /\ InitReference /\ InitTtfa

SpecCacheStore == InitCacheStore /\ [][NextCacheStore]_vars

\* C21: AudioCacheStore dispatch -- handling the message leaves the cache
\* with an entry for the key (an entry already present is left as it was)
\* and in every case sets playback_active and starts an asynchronous
\* playback
C21_CacheStoreDispatch ==
    [][store_msg' # store_msg =>
          LET m == store_msg'[1]
          IN  /\ m.key \in DOMAIN metadata'
              /\ FilePath(m.key) \in DOMAIN files'
              /\ m.cached => (metadata' = metadata /\ files' = files)
              /\ playback_event'
              /\ Len(procs') = Len(procs) + 1
              /\ current_handle' = Some(Len(procs'))]_vars

(***************************************************************************)
(* Properties of the volume ducking.                                       *)
(***************************************************************************)
InitDuck ==
    IdleDetector /\ InitAec /\ InitPlayer /\ InSession /\ InitReceive /\ InitStream /\ IdleCache
    /\ InitDispatch /\ InitDucking /\ InitConfig /\ InitReference /\ InitTtfa

SpecDuck == InitDuck /\ [][NextDucking]_vars

\* C22: ducking arms only on sustained speech -- a frame at which
\* duck_volume issues its command is a speech frame whose two predecessors
\* were speech frames too
C22_DuckOnSustainedSpeech ==
    \A i \in 1..Len(duck_hist) :
        duck_hist[i].cmd = "duck" =>
            /\ i >= DUCK_TRIGGER_COUNT
            /\ \A j \in (i - DUCK_TRIGGER_COUNT + 1)..i : duck_hist[j].speech

\* the mixer command issued last before frame i, "none" when there was none
RECURSIVE LastCommand(_)
LastCommand(i) ==
    IF i = 0 THEN "none"
    ELSE IF duck_hist[i].cmd # "none" THEN duck_hist[i].cmd
    ELSE LastCommand(i - 1)

\* frame i is processed during playback and is not speech
QuietFrame(i) == duck_hist[i].playing /\ ~duck_hist[i].speech

\* frame i is the 5th of a run of non-speech frames processed during playback
FifthQuietFrame(i) ==
    /\ i >= RESTORE_SILENCE_COUNT
    /\ \A j \in (i - RESTORE_SILENCE_COUNT + 1)..i : QuietFrame(j)
    /\ i > RESTORE_SILENCE_COUNT => ~QuietFrame(i - RESTORE_SILENCE_COUNT)

\* during playback the restore command is issued at the 5th consecutive
\* non-speech frame of a ducked volume, and at no other frame
RestoreTiming ==
    \A i \in 1..Len(duck_hist) :
        duck_hist[i].playing =>
            (duck_hist[i].cmd = "restore" <=> (duck_hist[i].was_ducked /\ FifthQuietFrame(i)))

\* the commands issued alternate, beginning with a duck
Alternation ==
    \A i \in 1..Len(duck_hist) :
        /\ duck_hist[i].cmd = "duck" => LastCommand(i - 1) \in {"none", "restore"}
        /\ duck_hist[i].cmd = "restore" => LastCommand(i - 1) = "duck"

\* no amixer call has raised
MixerCompletes == \A i \in 1..Len(duck_hist) : ~duck_hist[i].raised

Transition(speaking, streak, is_speech, max_silence) ==
    IF ~speaking
    THEN IF is_speech THEN << TRUE, 0, STARTED >> ELSE << FALSE, 0, SILENCE >>
    ELSE IF is_speech THEN << TRUE, 0, CONTINUING >>
    ELSE IF streak + 1 >= max_silence THEN << FALSE, 0, ENDED >>
    ELSE << TRUE, streak + 1, CONTINUING >>

DetectorStateOK ==
    /\ ~is_speaking => (silence_chunks = 0 /\ chunks_sent = 0 /\ speech_start_time = None)
    /\ 0 <= silence_chunks
    /\ silence_chunks < max_silence_chunks
    /\ Len(pre_buffer) <= pre_buffer_chunks

\* C24: detector state invariant -- when IDLE the silence streak and
\* chunks_sent are 0 and speech_started_at is unset, the streak is always
\* within 0..max_silence_chunks-1, the pre-roll holds at most
\* pre_roll_chunks frames, and every processed frame takes the mode, the
\* streak and the event to the function of (mode, streak, is_speech) and
\* the configuration
C24_DetectorStateInvariant ==
    /\ []DetectorStateOK
    /\ [][Len(log') = Len(log) + 1 =>
            << is_speaking', silence_chunks', log'[Len(log')].res.event >>
                = Transition(is_speaking, silence_chunks, hist'[Len(hist')],
                             max_silence_chunks)]_vars

C24_Witness ==
    /\ Len(log) > 0
    /\ Ev(Len(log)) = ENDED
    /\ ~is_speaking
    /\ Len(pre_buffer) = pre_buffer_chunks
    /\ max_silence_chunks > 1

\* the frames delivered by the events before event i
DeliveredBefore(i) == UNION { { Chunks(j)[k] : k \in 1..Len(Chunks(j)) } : j \in 1..(i - 1) }

\* C25: no frame is transmitted twice -- between two resets every frame is
\* in the chunks_to_send of at most one event
C25_NoFrameTwice ==
    \A i \in Frames :
        \A k \in 1..Len(Chunks(i)) : Chunks(i)[k] \notin DeliveredBefore(i)

(***************************************************************************)
(* Properties of the detector's thresholds.                                *)
(***************************************************************************)
InitMain ==
    Unbuilt /\ InitAec /\ InitPlayer /\ InSession /\ InitReceive /\ InitStream /\ IdleCache
    /\ InitDispatch /\ InitDucking /\ InitConfig /\ InitReference /\ InitTtfa

SpecConfig == InitMain /\ [][NextConfig]_vars

\* round(a / b) for positive integers, halves to the even neighbour
RoundDiv(a, b) ==
    LET q == a \div b
        r == a % b
    IN  IF 2 * r < b THEN q
        ELSE IF 2 * r > b THEN q + 1
        ELSE IF q % 2 = 0 THEN q ELSE q + 1

\* round(duration_ms / chunk_ms), chunk_ms being the duration of chunk_size
\* samples at the capture rate
RoundedChunks(duration_ms) ==
    Max(1, RoundDiv(duration_ms * audio_config[1].capture_rate,
                    audio_config[1].chunk_size * 1000))

\* C26: detector thresholds from configuration -- the detector the client
\* builds has pre_roll_chunks = max(1, round(pre_buffer_ms / chunk_ms)) and
\* max_silence_chunks = max(1, round(silence_duration_ms / chunk_ms)) for
\* the real duration chunk_ms of a capture chunk; 10 and 30 with the
\* defaults
C26_ThresholdsFromConfig ==
    pre_buffer_chunks > 0 =>
        /\ pre_buffer_chunks = RoundedChunks(vad_cfg[1].pre_buffer_ms)
        /\ max_silence_chunks = RoundedChunks(vad_cfg[1].silence_duration_ms)
        /\ (/\ audio_config[1] = [capture_rate |-> 48000, target_rate |-> 16000,
                                  chunk_size |-> 1440]
            /\ vad_cfg[1] = [pre_buffer_ms |-> 300, silence_duration_ms |-> 900])
              => (pre_buffer_chunks = 10 /\ max_silence_chunks = 30)

(***************************************************************************)
(* Further properties of the reference buffer.                             *)
(***************************************************************************)
\* the position read_for_time locates: playback_start_sample + elapsed
\* samples - delay_samples
TargetSample == playback_start_sample + (clock - playback_start_time[1]) - DelaySamples

\* the sample written at a logical position, as long as no write has raised
\* since the ring was cleared: the j-th sample written has the value j
WrittenAt(position) == position + 1

\* C27: reference alignment -- a frame read_for_time returns for a target
\* within the written samples holds at element i the sample written at
\* logical position target + i, or 0 from total_written on, whatever was
\* written and however much; before the delay has elapsed the frame is all
\* zero
C27_ReferenceAlignment ==
    (playback_start_time # None /\ registered = total_written) =>
        LET rd == ReadForTime(FrameSize, DelaySamples)
        IN  /\ TargetSample < playback_start_sample =>
                  rd.ref = Some(Zeros(FrameSize))
            /\ (TargetSample >= playback_start_sample /\ TargetSample < total_written) =>
                  /\ rd.ref # None
                  /\ \A j \in 1..FrameSize :
                        rd.ref[1][j] = IF TargetSample + (j - 1) < total_written
                                       THEN WrittenAt(TargetSample + (j - 1))
                                       ELSE 0

(***************************************************************************)
(* Properties of the player with an echo canceller.                        *)
(***************************************************************************)
InitReferencePlayer ==
    IdleDetector /\ InitAec /\ InitPlayer /\ InSession /\ InitReceive /\ InitStream /\ IdleCache
    /\ InitDispatch /\ InitDucking /\ InitConfig /\ InitReference /\ InitTtfa

SpecReference == InitReferencePlayer /\ [][NextReference]_vars

\* C28: no stale reference -- whenever the timing is set and the ring holds
\* samples, so that cancel_echo would hand a reference frame to the engine,
\* the samples and the start time belong to the same playback
C28_NoStaleReference ==
    (time_of # None /\ ring_of # {}) => ring_of = {time_of[1]}

\* the stream that start_stream started last is current and neither
\* end_stream nor stop_current has been called for it
StreamOpen == rp_stream # None /\ ~pbs[rp_stream[1]].ended

\* C29: stream timing is latched once -- while a stream is open the ring
\* was cleared and the timing started exactly once, at its first chunk,
\* no later chunk cleared or restarted it, and the timing has stayed set
\* since, whatever the thread of a pre-empted playback did meanwhile
C29_StreamTimingLatched ==
    StreamOpen =>
        LET written == pbs[rp_stream[1]].chunks
        IN  /\ latch.clears = (IF written >= 1 THEN 1 ELSE 0)
            /\ latch.starts = (IF written >= 1 THEN 1 ELSE 0)
            /\ ~latch.dropped
            /\ written >= 1 => time_of = rp_stream

\* a sink that was given audio is still rendering
FedSinkRendering == \E i \in DOMAIN pbs : pbs[i].sink = "rendering" /\ pbs[i].fed

\* some sink of the player is alive
SinkAlive == \E i \in DOMAIN pbs : pbs[i].sink = "rendering"

\* C30: the timing flag matches playback -- playback_start_time is None
\* whenever no sink is rendering, and set whenever a sink that was given
\* audio is still rendering, a stream draining after end_stream included
C30_TimingMatchesPlayback ==
    /\ ~SinkAlive => time_of = None
    /\ FedSinkRendering => time_of # None

\* the first half of C30 alone
NullWhenSilent == ~SinkAlive => time_of = None

\* the second half of C30 alone
SetWhenRendering == FedSinkRendering => time_of # None

(***************************************************************************)
(* Properties of the reference buffer's registration calls (SpecAec).      *)
(***************************************************************************)
\* C31: begin_registration frame condition -- begin_playback_registration
\* zeroes the ring and resets write_pos, total_written and
\* pending_start_sample, and leaves the start time and the start sample as
\* they were; start_playback sets the start sample to the pending one and
\* the start time to the current time, and leaves the ring and
\* total_written as they were
C31_RegistrationFrame ==
    [][/\ BeginPlaybackRegistration =>
            /\ rb_samples' = ZeroRing
            /\ write_pos' = 0 /\ total_written' = 0 /\ pending_start_sample' = 0
            /\ UNCHANGED << playback_start_time, playback_start_sample >>
       /\ StartPlayback =>
            /\ playback_start_sample' = pending_start_sample
            /\ playback_start_time' = Some(clock')
            /\ UNCHANGED << rb_samples, write_pos, total_written, pending_start_sample >>
      ]_vars

\* the ring was cleared in the middle of a cancel_echo call that had read
\* a frame from it, and the timing started before is still set
C31_Witness ==
    /\ ce_pc = "frames"
    /\ \E f \in ce_frames : f.nonempty /\ f.timed
    /\ total_written = 0 /\ registered = 0 /\ rb_samples = ZeroRing
    /\ playback_start_time # None
    /\ timing = "started"

\* frames the loop of cancel_echo has handled when its offset is i
FramesDone(i) == (i + FrameSize - 1) \div FrameSize

\* C32: cancel_echo preserves length and survives engine failure -- the
\* output grows by exactly the samples of each frame handled, so that a
\* call that went through the loop returns as many samples as it was given,
\* whatever the length of the input; a frame on which the engine raised is
\* output as it came in, and the loop goes on to the end of the chunk
C32_LengthPreserved ==
    /\ ce_pc = "frames" => Len(ce_out) = Min(ce_i, Len(ce_mic))
    /\ Returned => Len(ce_result[1]) = Len(ce_mic)
    /\ (Returned /\ ce_gate.initialized /\ ce_gate.timed) => ce_i = FramesDone(Len(ce_mic)) * FrameSize
    /\ \A f \in ce_frames : f.raised => f.unchanged

\* a call whose input ends with a short frame has returned; the engine
\* raised on one of its frames and cancelled another
C32_Witness ==
    /\ Returned
    /\ Len(ce_mic) % FrameSize # 0
    /\ Len(ce_mic) > FrameSize
    /\ \E f \in ce_frames : f.raised
    /\ \E f \in ce_frames : f.engine_called /\ ~f.raised /\ ~f.unchanged
    /\ Len(ce_result[1]) = Len(ce_mic)

(***************************************************************************)
(* Properties of a stream that was ended (SpecStream).                     *)
(***************************************************************************)
\* C33: a draining stream stays killable -- once end_stream has queued the
\* sentinel, the player holds the stream for as long as its sink is alive:
\* the sink is never left alive with the player's reference to it gone
C33_DrainingStaysKillable ==
    (sw_ended_at # None /\ sw_sink = "alive") => sw_active

\* a stream whose sink keeps consuming and that nobody stops: the
\* dispatcher's write_stream and end_stream calls and the writer's turns
NextDraining ==
    \/ WriteStream
    \/ EndStream
    \/ WriterTurn

\* the writer thread is scheduled whenever it has an item to take
SpecDraining == InitStreaming /\ [][NextDraining]_vars /\ WF_vars(WriterTurn)

\* C34: graceful stream end terminates -- once end_stream has been called
\* on the active stream whose sink keeps consuming, the writer thread
\* eventually takes the sentinel and exits, whatever the queue held at the
\* time of the call
C34_GracefulEndTerminates ==
    sw_end_called ~> (sw_thread = "done")

\* the chunks that write_stream put on the stream's queue, in order
Enqueued == SelectSeq([c \in 1..sw_passed |-> c], LAMBDA c : sw_returned[c])

\* C35: the reference matches what the sink received -- the chunks
\* registered with the echo canceller are exactly the chunks enqueued to
\* the sink, in the same order; a chunk that write_stream dropped is not in
\* the reference
C35_ReferenceMatchesSink ==
    sw_reference = Enqueued

(***************************************************************************)
(* Properties of the dispatch of ResponseComplete (SpecPlayer).            *)
(***************************************************************************)
\* sentences of the current response are still to come
SentencesRemain == ~response.rc /\ 0 < response.idx /\ response.idx < response.total

\* C36: ResponseComplete dispatch -- handling ResponseComplete sets
\* pending_response_complete and stops the asynchronous playback; it
\* clears playback_active when no further sentence of the response remains
\* and leaves it set while sentences are still to come
C36_ResponseCompleteDispatch ==
    [][HandleResponseComplete =>
          /\ pending_response_complete'
          /\ current_handle' = None
          /\ current_handle # None => ~Rendering(procs'[current_handle[1]])
          /\ IF SentencesRemain
             THEN playback_event' = playback_event
             ELSE ~playback_event']_vars

(***************************************************************************)
(* Properties of the time-to-first-audio marker.                           *)
(***************************************************************************)
InitFirstAudio ==
    IdleDetector /\ InitAec /\ InitPlayer /\ InSession /\ InitReceive /\ InitStream /\ IdleCache
    /\ InitDispatch /\ InitDucking /\ InitConfig /\ InitReference /\ InitTtfa

SpecTtfa == InitFirstAudio /\ [][NextTtfa]_vars

\* C37: time-to-first-audio marker -- in each response the marker is
\* cleared at most once, only by the first audio of the response (the first
\* chunk of a tts stream, sentence 1, legacy chunk 1), and the two
\* dispatchers clear it on the same messages
C37_FirstAudioMarker ==
    /\ tt_resp.mh <= 1 /\ tt_resp.cl <= 1
    /\ (tt_last.mh \/ tt_last.cl) => tt_last.first_audio
    /\ tt_last.mh = tt_last.cl

\* the three parts of C37 on their own
ClearedOncePerResponse == tt_resp.mh <= 1 /\ tt_resp.cl <= 1
ClearedByFirstAudio == (tt_last.mh \/ tt_last.cl) => tt_last.first_audio
SameInBothDispatchers == tt_last.mh = tt_last.cl

(***************************************************************************)
(* Properties of the end of a session (SpecSession).                       *)
(***************************************************************************)
\* both tasks of the last session have terminated
TasksOver ==
    /\ cap_pc \in CaptureOutcomes \cup {"none"}
    /\ recv_pc \in ReceiveOutcomes \cup {"none"}

UtteranceStart(i) ==
    LET starts == {s \in 1..i : Ev(s) = STARTED}
    IN  IF starts = {} THEN 0 ELSE CHOOSE s \in starts : \A t \in starts : t <= s

\* chunks in the chunks_to_send lists of frames s..e
RECURSIVE ChunksBetween(_, _)
ChunksBetween(s, e) ==
    IF s > e THEN 0 ELSE Len(Chunks(s)) + ChunksBetween(s + 1, e)

\* C39: utterance chunk accounting -- the chunks_sent of an ENDED event is
\* the number of chunks in the chunks_to_send lists of the utterance's
\* STARTED event and of all its CONTINUING events (pre-roll, trigger frame,
\* speech frames and grace frames), as many audio_chunk messages as the
\* utterance put on the wire; the ENDED event carries no audio, and only
\* an ENDED event carries a count
C39_ChunkAccounting ==
    \A i \in Frames :
        IF Ev(i) = ENDED
        THEN /\ UtteranceStart(i) >= 1
             /\ \A j \in (UtteranceStart(i) + 1)..(i - 1) : Ev(j) = CONTINUING
             /\ log[i].res.chunks_sent = Some(ChunksBetween(UtteranceStart(i), i - 1))
             /\ ChunksBetween(UtteranceStart(i), i - 1) =
                   log[UtteranceStart(i)].pre_len + 1 + (i - 1 - UtteranceStart(i))
             /\ log[i].wire_at - log[UtteranceStart(i)].wire_at =
                   ChunksBetween(UtteranceStart(i), i - 1)
             /\ Chunks(i) = << >>
             /\ WireOf(i) = << EndSpeechMsg >>
        ELSE log[i].res.chunks_sent = None

\* an utterance with pre-roll, a trigger frame, a further speech frame and
\* a grace frame has ended
C39_Witness ==
    \E i \in Frames :
        /\ Ev(i) = ENDED
        /\ LET s == UtteranceStart(i)
           IN  /\ s >= 1
               /\ Len(Chunks(s)) >= 2
               /\ \E j \in (s + 1)..(i - 1) : hist[j]
               /\ \E j \in (s + 1)..(i - 1) : ~hist[j]
               /\ log[i].res.chunks_sent = Some(Len(Chunks(s)) + (i - 1 - s))

(***************************************************************************)
(* The size limit of the cache (SpecCache).                                *)
(***************************************************************************)
\* a store call has returned True in this step
StoreSucceeds == Store /\ cache_clock' = cache_clock + 1

\* the index _enforce_size_limit starts from in this step: the index with
\* the stored entry in a store, the loaded index in a construction
IndexBefore ==
    IF cache_pc = "ready"
    THEN With(metadata, last_path'[1].key,
              [last_accessed |-> cache_clock + 1,
               size_bytes |-> Len(fresh'[1].data)])
    ELSE JsonLoad(disk_meta)

\* the keys this step evicted
Evicted == DOMAIN IndexBefore \ DOMAIN metadata'

\* the index fits the limit after the step
WithinLimit == max_bytes > 0 => TotalSize(metadata') <= max_bytes

\* the least recently accessed entries were evicted, and no more than needed
OldestFirst ==
    /\ \A e \in Evicted : \A k \in DOMAIN metadata' :
          IndexBefore[e].last_accessed <= IndexBefore[k].last_accessed
    /\ \A e \in Evicted :
          (\A d \in Evicted : IndexBefore[d].last_accessed <= IndexBefore[e].last_accessed)
             => TotalSize(metadata') + IndexBefore[e].size_bytes > max_bytes
    /\ max_bytes = 0 => Evicted = {}

\* an evicted key has neither an index entry nor a file
EvictedGone == \A e \in Evicted : FilePath(e) \notin DOMAIN files'

\* the key stored in this step is in the index
OwnKeyPresent == last_path'[1].key \in DOMAIN metadata'

\* C40: cache size bound and eviction order -- with a size limit, after
\* construction and after every store the sizes of the index entries sum to
\* at most the limit, entries are evicted least recently accessed first
\* and only as many as needed, every evicted key loses its file and its
\* index entry, and a store that returns True leaves its own key in the
\* index
C40_SizeBoundAndEviction ==
    [][/\ StoreSucceeds => WithinLimit /\ OldestFirst /\ EvictedGone /\ OwnKeyPresent
       /\ Restart => WithinLimit /\ OldestFirst /\ EvictedGone
      ]_vars

\* the bound, the order and the removal alone, without the stored key's
\* presence
EvictionAsBuilt ==
    [][(StoreSucceeds \/ Restart) => WithinLimit /\ OldestFirst /\ EvictedGone]_vars

\* the limit holds in every state of a running cache
SizeBound == (cache_pc = "ready" /\ max_bytes > 0) => TotalSize(metadata) <= max_bytes

====
